---- MODULE Spec2Model ----
(***************************************************************************)
(* SamuilBot (src/bot.py): the scheduled-message deduplication             *)
(* (_should_dedupe_scheduled_send, _record_scheduled_send, the daily       *)
(* markers), the three scheduled job callbacks and JobManager.setup_jobs.  *)
(*                                                                         *)
(* A text is a sequence of Unicode code points, a timestamp is a number of *)
(* seconds, a calendar date is a day number (timestamp \div one day).      *)
(***************************************************************************)
EXTENDS Integers, Sequences, FiniteSets, TLC

VARIABLES
    clock,                      \* wall clock, datetime.now(tz), in seconds
    GROUP_CHAT_ID,              \* whether the environment configures the group chat
    has_job_queue,              \* whether application.job_queue exists
    _last_scheduled_sent_at,    \* dict: key -> datetime (job names and daily markers)
    _last_scheduled_texts,      \* defaultdict: job name -> deque(maxlen=5) of texts
    job_queue,                  \* the timers of the job queue, in registration order
    jobs_setup,                 \* JobManager.jobs_setup
    setup_time,                 \* JobManager.setup_time
    job_names,                  \* JobManager.job_names
    setup_calls,                \* the calls of setup_jobs: position and locals
    invocations,                \* the running job callbacks: position and locals
    sent_log                    \* the scheduled messages the transport accepted, each
                                \* recorded by _record_scheduled_send, in order

VARIABLES
    dialog_history,             \* defaultdict: (chat, user) -> the list object stored
    list_objects,               \* the list objects in use: object -> its entries
    answer_calls,               \* the calls of generate_samuil_answer: position, locals
    answers_started,            \* how many generate_samuil_answer calls were made
    cleared_entries             \* per key, the entries cmd_clear found and dropped

VARIABLES
    client,                     \* lines 42-44: whether the OpenAI client was created
    OPENWEATHER_API_KEY,        \* line 47: whether the key is set
    TARGET_USER_ID,             \* line 31: Maxim's user id, 0 when it is not set
    daily_summary_log,          \* defaultdict: date -> the lines logged for that date
    handler_calls,              \* the calls of handle_group_message: position, locals
    messages_received,          \* how many updates handle_group_message was given
    _last_maxim_replies,        \* deque(maxlen=8) of the replies generated for Maxim
    _openai_cache,              \* cache key -> (response, timestamp)
    _weather_cache,             \* city query -> (result, timestamp)
    weather_calls               \* the direct calls of fetch_weather_for_city

dialogVars == <<dialog_history, list_objects, answer_calls, answers_started,
                cleared_entries>>

configVars == <<client, OPENWEATHER_API_KEY, TARGET_USER_ID>>

groupVars == <<handler_calls, messages_received, _last_maxim_replies>>

weatherVars == <<_weather_cache, weather_calls>>

\* what the job callbacks neither read nor write
handlerVars == <<dialogVars, configVars, groupVars, weatherVars>>

\* the state of the chat handlers
chatVars == <<handlerVars, daily_summary_log, _openai_cache>>

vars == <<clock, GROUP_CHAT_ID, has_job_queue, _last_scheduled_sent_at,
          _last_scheduled_texts, job_queue, jobs_setup, setup_time, job_names,
          setup_calls, invocations, sent_log, chatVars>>

\* Python's None where a timestamp is expected
NoTime == 0 - 1

(***************************************************************************)
(* Program constants.                                                      *)
(***************************************************************************)
\* bot.py:511  if time_diff < 600
Cooldown == 600
\* bot.py:521  len(norm) > 20 and len(prev_norm) > 20
MinSimilarLen == 20
\* bot.py:527  similarity > 0.8, kept in integers as 100 * common > 80 * max
SimilarityPercent == 80
\* bot.py:68   deque(maxlen=5)
HistoryMaxlen == 5

SecondsPerDay == 24 * 60 * 60

\* now.date() as a day number
DateOf(t) == t \div SecondsPerDay

(***************************************************************************)
(* Text primitives of Python that _normalize_text_for_dedupe uses, on      *)
(* the alphabet ASCII + Cyrillic + the whitespace of str.isspace().        *)
(***************************************************************************)
\* str.isspace() / regex \s on one character
IsSpace(c) == c \in {9, 10, 11, 12, 13, 28, 29, 30, 31, 32, 133, 160}

\* str.lower() on one character: A-Z, the Cyrillic capitals
LowerChar(c) ==
    IF (c >= 65 /\ c <= 90) \/ (c >= 1040 /\ c <= 1071) THEN c + 32
    ELSE IF c >= 1024 /\ c <= 1039 THEN c + 80
    ELSE c

\* str.lower()
Lower(s) == [i \in 1..Len(s) |-> LowerChar(s[i])]

RECURSIVE LStrip(_)
LStrip(s) ==
    IF s = <<>> THEN s
    ELSE IF IsSpace(Head(s)) THEN LStrip(Tail(s))
    ELSE s

RECURSIVE RStrip(_)
RStrip(s) ==
    IF s = <<>> THEN s
    ELSE IF IsSpace(s[Len(s)]) THEN RStrip(SubSeq(s, 1, Len(s) - 1))
    ELSE s

\* str.strip()
Strip(s) == RStrip(LStrip(s))

\* re.sub(r"\s+", " ", s): every maximal run of whitespace becomes one space
RECURSIVE CollapseSpaces(_)
CollapseSpaces(s) ==
    IF s = <<>> THEN s
    ELSE IF IsSpace(Head(s)) THEN <<32>> \o CollapseSpaces(LStrip(Tail(s)))
    ELSE <<Head(s)>> \o CollapseSpaces(Tail(s))

\* the first word of a string that starts with a non-space character
RECURSIVE FirstWord(_)
FirstWord(s) ==
    IF s = <<>> \/ IsSpace(Head(s)) THEN <<>>
    ELSE <<Head(s)>> \o FirstWord(Tail(s))

\* set(s.split()): the set of maximal runs of non-whitespace characters
RECURSIVE WordSet(_)
WordSet(s) ==
    LET t == LStrip(s) IN
    IF t = <<>> THEN {}
    ELSE LET w == FirstWord(t) IN
         {w} \cup WordSet(SubSeq(t, Len(w) + 1, Len(t)))

Max(a, b) == IF a >= b THEN a ELSE b

Abs(a) == IF a >= 0 THEN a ELSE 0 - a

(***************************************************************************)
(* bot.py:495-497                                                          *)
(***************************************************************************)
_normalize_text_for_dedupe(s) == CollapseSpaces(Lower(Strip(s)))

(***************************************************************************)
(* The scheduled jobs: the name each passes to the dedupe functions and    *)
(* the prefix of its daily marker key.                                     *)
(***************************************************************************)
good_morning_job == "good_morning_job"

evening_summary_job == "evening_summary_job"

today_events_job == "today_events_job"

JobCallbacks == {good_morning_job, evening_summary_job, today_events_job}

\* f"good_morning_sent_{today_str}" etc.: the key prefix of each callback
MarkerPrefix(job) ==
    CASE job = good_morning_job -> "good_morning_sent_"
      [] job = evening_summary_job -> "evening_summary_sent_"
      [] job = today_events_job -> "today_events_sent_"

\* Keys of _last_scheduled_sent_at: a job name, or a marker prefix with a date
NameKey(job_name) == <<job_name>>

last_send_key(job, today) == <<MarkerPrefix(job), today>>

(***************************************************************************)
(* bot.py:500-531  _should_dedupe_scheduled_send                           *)
(***************************************************************************)
\* a cooldown of one minute instead of ten
TooSoonShort(job_name, now) ==
    /\ NameKey(job_name) \in DOMAIN _last_scheduled_sent_at
    /\ Abs(now - _last_scheduled_sent_at[NameKey(job_name)]) < 60

\* lines 508-513: a last send exists and is less than 600 seconds away
TooSoon(job_name, now) ==
    /\ NameKey(job_name) \in DOMAIN _last_scheduled_sent_at
    /\ Abs(now - _last_scheduled_sent_at[NameKey(job_name)]) < Cooldown

\* line 515: _last_scheduled_texts[job_name], read through the defaultdict
HistoryOf(job_name) ==
    IF job_name \in DOMAIN _last_scheduled_texts
    THEN _last_scheduled_texts[job_name]
    ELSE <<>>

\* the word overlap alone, without the two length tests
IsSimilarNoMinLen(norm, prev_norm) ==
    LET words_current == WordSet(norm)
        words_prev == WordSet(prev_norm)
        common_words == words_current \cap words_prev
    IN 100 * Cardinality(common_words) >
           SimilarityPercent * Max(Cardinality(words_current), Cardinality(words_prev))

\* lines 521-529: both longer than 20 characters and word overlap above 0.8
IsSimilar(norm, prev_norm) ==
    /\ Len(norm) > MinSimilarLen
    /\ Len(prev_norm) > MinSimilarLen
    /\ LET words_current == WordSet(norm)
           words_prev == WordSet(prev_norm)
           common_words == words_current \cap words_prev
       IN 100 * Cardinality(common_words) >
              SimilarityPercent * Max(Cardinality(words_current), Cardinality(words_prev))

\* the loop without the test norm == prev_norm
RECURSIVE ScanHistoryNoExact(_, _)
ScanHistoryNoExact(norm, hist) ==
    IF hist = <<>> THEN FALSE
    ELSE LET prev_norm == _normalize_text_for_dedupe(Head(hist)) IN
         IF IsSimilar(norm, prev_norm) THEN TRUE
         ELSE ScanHistoryNoExact(norm, Tail(hist))

\* lines 515-531: the loop over the history, returning at the first hit
RECURSIVE ScanHistory(_, _)
ScanHistory(norm, hist) ==
    IF hist = <<>> THEN FALSE
    ELSE LET prev_norm == _normalize_text_for_dedupe(Head(hist)) IN
         IF norm = prev_norm THEN TRUE
         ELSE IF IsSimilar(norm, prev_norm) THEN TRUE
         ELSE ScanHistory(norm, Tail(hist))

\* the function without the early return on an empty normalized text
ShouldDedupeNoEmptyCheck(job_name, now, text) ==
    LET norm == _normalize_text_for_dedupe(text) IN
    IF TooSoon(job_name, now) THEN TRUE
    ELSE ScanHistory(norm, HistoryOf(job_name))

\* the function's return value in the current state
_should_dedupe_scheduled_send(job_name, now, text) ==
    LET norm == _normalize_text_for_dedupe(text) IN
    IF norm = <<>> THEN FALSE
    ELSE IF TooSoon(job_name, now) THEN TRUE
    ELSE ScanHistory(norm, HistoryOf(job_name))

\* the function's effect: reading _last_scheduled_texts[job_name] (line 515)
\* creates the key in the defaultdict when the loop is reached
TextsAfterDedupe(job_name, now, text) ==
    IF /\ _normalize_text_for_dedupe(text) # <<>>
       /\ ~TooSoon(job_name, now)
       /\ job_name \notin DOMAIN _last_scheduled_texts
    THEN [k \in DOMAIN _last_scheduled_texts \cup {job_name} |->
            IF k = job_name THEN <<>> ELSE _last_scheduled_texts[k]]
    ELSE _last_scheduled_texts

(***************************************************************************)
(* bot.py:534-538  _record_scheduled_send                                  *)
(***************************************************************************)
\* an append that drops the newest entry of a full deque instead of the oldest
DequeAppendDropNewest(d, x) ==
    IF Len(d) >= HistoryMaxlen THEN SubSeq(d, 1, Len(d) - 1) \o <<x>> ELSE d \o <<x>>

\* deque(maxlen=5).append: the oldest entry leaves when the deque is full
DequeAppend(d, x) ==
    IF Len(d) >= HistoryMaxlen THEN Tail(d) \o <<x>> ELSE d \o <<x>>

\* line 536: _last_scheduled_sent_at[key] = now
SetSentAt(sent_at, key, now) ==
    [k \in DOMAIN sent_at \cup {key} |-> IF k = key THEN now ELSE sent_at[k]]

\* line 537: _last_scheduled_texts[job_name].append(text)
AppendText(texts, job_name, text) ==
    [k \in DOMAIN texts \cup {job_name} |->
        IF k = job_name
        THEN DequeAppend(IF job_name \in DOMAIN texts THEN texts[job_name] ELSE <<>>, text)
        ELSE texts[k]]

(***************************************************************************)
(* The texts the checks draw from, as code points.                         *)
(***************************************************************************)
\* the empty string
TextEmpty ==
    <<>>

\* space, tab, space
TextBlank ==
    <<32, 9, 32>>

\* "Hi"
TextHi ==
    <<72, 105>>

\* " hi\n": normalizes like "Hi"
TextHiSpaced ==
    <<32, 104, 105, 10>>

\* "Доброе утро, как дела?" (22 characters)
TextDobroe ==
    <<1044, 1086, 1073, 1088, 1086, 1077, 32, 1091, 1090, 1088, 1086, 44,
      32, 1082, 1072, 1082, 32, 1076, 1077, 1083, 1072, 63>>

\* "Как дела, доброе утро?" (22 characters)
TextKakDela ==
    <<1050, 1072, 1082, 32, 1076, 1077, 1083, 1072, 44, 32, 1076, 1086,
      1073, 1088, 1086, 1077, 32, 1091, 1090, 1088, 1086, 63>>

\* "Спокойной ночи, отдыхай." (24 characters)
TextNochi ==
    <<1057, 1087, 1086, 1082, 1086, 1081, 1085, 1086, 1081, 32, 1085, 1086,
      1095, 1080, 44, 32, 1086, 1090, 1076, 1099, 1093, 1072, 1081, 46>>

\* "aaa bbbb cccc ddd eee": 5 words, 21 characters
TextFive ==
    <<97, 97, 97, 32, 98, 98, 98, 98, 32, 99, 99, 99, 99, 32, 100, 100,
      100, 32, 101, 101, 101>>

\* " AAA  bbbb cccc ddd\teee": normalizes like TextFive
TextFiveSpaced ==
    <<32, 65, 65, 65, 32, 32, 98, 98, 98, 98, 32, 99, 99, 99, 99, 32, 100,
      100, 100, 9, 101, 101, 101>>

\* "eee ddd cccc bbbb aaa": the 5 words of TextFive, 21 characters
TextFiveReordered ==
    <<101, 101, 101, 32, 100, 100, 100, 32, 99, 99, 99, 99, 32, 98, 98, 98,
      98, 32, 97, 97, 97>>

\* "aaa bbbb cccc ddd xxx": shares 4 of 5 words with TextFive (0.8)
TextFourOfFive ==
    <<97, 97, 97, 32, 98, 98, 98, 98, 32, 99, 99, 99, 99, 32, 100, 100,
      100, 32, 120, 120, 120>>

\* "aaa bbbb cccc ddd eee f": shares 5 of 6 words with TextFive
TextFiveOfSix ==
    <<97, 97, 97, 32, 98, 98, 98, 98, 32, 99, 99, 99, 99, 32, 100, 100,
      100, 32, 101, 101, 101, 32, 102>>

\* "aaaa bbbb cccc ddddd": 4 words, 20 characters
TextTwenty ==
    <<97, 97, 97, 97, 32, 98, 98, 98, 98, 32, 99, 99, 99, 99, 32, 100, 100,
      100, 100, 100>>

\* "ddddd cccc bbbb aaaa": the 4 words of TextTwenty
TextTwentyReordered ==
    <<100, 100, 100, 100, 100, 32, 99, 99, 99, 99, 32, 98, 98, 98, 98, 32,
      97, 97, 97, 97>>


(***************************************************************************)
(* Spec: the bot. setup_jobs is called, timers fire the job callbacks, the *)
(* clock advances. Coroutines interleave at their await points only: each  *)
(* action below is the code between two awaits.                            *)
(***************************************************************************)
envVars == <<clock, GROUP_CHAT_ID, has_job_queue>>

managerVars == <<job_queue, jobs_setup, setup_time, job_names, setup_calls>>

dedupeVars == <<_last_scheduled_sent_at, _last_scheduled_texts>>

\* d[k] = v of a dict
DictSet(d, k, v) ==
    [x \in DOMAIN d \cup {k} |-> IF x = k THEN v ELSE d[x]]

\* del d[k]
DictDel(d, k) == [x \in DOMAIN d \ {k} |-> d[x]]

Range(list) == {list[i] : i \in DOMAIN list}

\* bot.py:75
WEATHER_CACHE_TTL == 300
\* bot.py:79
OPENAI_CACHE_TTL == 600
\* bot.py:71  deque(maxlen=8)
MaximRepliesMaxlen == 8

\* the chat of GROUP_CHAT_ID and another group the bot is a member of
GroupChat == 1

OtherChat == 2

\* the user TARGET_USER_ID names and another member
Maxim == 1

OtherUser == 2

\* at most this many calls of handle_group_message or of
\* generate_samuil_answer run at a time
MaxAnswerCalls == 2

\* at most this many direct calls of fetch_weather_for_city run at a time
MaxWeatherCalls == 2

NoAnswerCall ==
    [pc |-> "idle", key |-> <<0, 0>>, user_text |-> 0, history |-> 0, text |-> 0]

NoMessage == [chat |-> 0, user |-> 0, text |-> <<>>, reply_to_bot |-> FALSE]

NoReply == [kind |-> "", text |-> 0]

NoHandlerCall ==
    [pc |-> "idle", number |-> 0, message |-> NoMessage, city_query |-> <<>>,
     reply |-> NoReply, replies |-> <<>>, outcome |-> ""]

NoWeatherCall ==
    [pc |-> "idle", city_query |-> <<>>, result |-> 0, cached |-> FALSE]

\* the state of the handlers after the module is loaded (bot.py:58-79)
InitChatState ==
    /\ dialog_history = <<>>
    /\ list_objects = <<>>
    /\ answer_calls = [s \in 1..MaxAnswerCalls |-> NoAnswerCall]
    /\ answers_started = 0
    /\ cleared_entries = <<>>
    /\ daily_summary_log = <<>>
    /\ handler_calls = [h \in 1..MaxAnswerCalls |-> NoHandlerCall]
    /\ messages_received = 0
    /\ _last_maxim_replies = <<>>
    /\ _openai_cache = <<>>
    /\ _weather_cache = <<>>
    /\ weather_calls = [w \in 1..MaxWeatherCalls |-> NoWeatherCall]

\* every key of the environment is set (bot.py:31-47)
InitChat ==
    /\ client = TRUE
    /\ OPENWEATHER_API_KEY = TRUE
    /\ TARGET_USER_ID = Maxim
    /\ InitChatState

\* lines 127-134: call_openai_chat answers from _openai_cache
ServedFromCache(use_cache, cache_key, now) ==
    /\ use_cache
    /\ cache_key \in DOMAIN _openai_cache
    /\ now - _openai_cache[cache_key].timestamp < OPENAI_CACHE_TTL

\* a call that stores the text whatever use_cache says
CacheAfterChatIgnoresFlag(use_cache, cache_key, text, now) ==
    DictSet(_openai_cache, cache_key, [response |-> text, timestamp |-> now])

\* lines 147-149: _openai_cache after a call that got a text from the model
CacheAfterChat(use_cache, cache_key, text, now) ==
    IF use_cache
    THEN DictSet(_openai_cache, cache_key, [response |-> text, timestamp |-> now])
    ELSE _openai_cache

\* a summary that drops the log of the date whichever the job
LogAfterSummaryAnyJob(job, today) ==
    IF today \in DOMAIN daily_summary_log
    THEN DictDel(daily_summary_log, today)
    ELSE daily_summary_log

\* lines 1052-1053: daily_summary_log after evening_summary_job has sent and
\* recorded its summary; the other callbacks do not touch the log
LogAfterSummary(job, today) ==
    IF job = evening_summary_job /\ today \in DOMAIN daily_summary_log
    THEN DictDel(daily_summary_log, today)
    ELSE daily_summary_log

\* at most this many calls of setup_jobs
MaxSetupCalls == 2

\* at most this many firings of job callbacks
MaxInvocations == 2

\* the clock advances by at most this many cooldowns
MaxCooldowns == 1

\* the process starts ten minutes before midnight of day 0
StartClock == SecondsPerDay - Cooldown

TickSteps == {Cooldown - 1, Cooldown}

\* what the text generators return: stripped and not empty (bot.py:143-145, 384)
GeneratedTexts == {TextTwenty, TextTwentyReordered}

\* an invocation: the position of the callback, its locals while it runs and,
\* once it has returned, the return statement it took
NoInvocation ==
    [pc |-> "idle", job |-> good_morning_job, now |-> 0, text |-> <<>>, outcome |-> ""]

DoneInvocation ==
    [pc |-> "done", job |-> good_morning_job, now |-> 0, text |-> <<>>, outcome |-> ""]

Returned(outcome) == [DoneInvocation EXCEPT !.outcome = outcome]

Running(pc, job, now, text) ==
    [pc |-> pc, job |-> job, now |-> now, text |-> text, outcome |-> ""]

NoSetupCall == [pc |-> "idle", now |-> 0, sequential |-> FALSE, startup_sent |-> FALSE]

Init ==
    /\ clock = StartClock
    /\ GROUP_CHAT_ID \in BOOLEAN
    /\ has_job_queue \in BOOLEAN
    /\ _last_scheduled_sent_at = <<>>
    /\ _last_scheduled_texts = <<>>
    /\ job_queue = <<>>
    /\ jobs_setup = FALSE
    /\ setup_time = NoTime
    /\ job_names = {}
    /\ setup_calls = [c \in 1..MaxSetupCalls |-> NoSetupCall]
    /\ invocations = [i \in 1..MaxInvocations |-> NoInvocation]
    /\ sent_log = <<>>
    /\ InitChat

\* time passes
Tick(d) ==
    /\ clock + d <= StartClock + MaxCooldowns * Cooldown
    /\ clock' = clock + d
    /\ UNCHANGED <<chatVars, GROUP_CHAT_ID, has_job_queue, dedupeVars, managerVars,
                   invocations, sent_log>>

(***************************************************************************)
(* bot.py:1061-1155  JobManager.setup_jobs                                 *)
(***************************************************************************)
\* line 1089: the callbacks whose timers setup_jobs removes
SamuilCallbacks == {good_morning_job, evening_summary_job, today_events_job}

\* a removal that overlooks the timers of evening_summary_job
AfterRemovalKeepsEvening(queue) ==
    SelectSeq(queue, LAMBDA job : job.callback \notin {good_morning_job, today_events_job})

\* lines 1084-1097: the queue after schedule_removal of every old job
AfterRemoval(queue) == SelectSeq(queue, LAMBDA job : job.callback \notin SamuilCallbacks)

\* a registration that gives the evening timer the morning callback
NewTimersMorningTwice(now) ==
    << [callback |-> good_morning_job, name |-> <<"samuil_good_morning_", now>>],
       [callback |-> today_events_job, name |-> <<"samuil_today_events_", now>>],
       [callback |-> good_morning_job, name |-> <<"samuil_evening_summary_", now>>] >>

\* lines 1101-1118: the three run_daily registrations
NewTimers(now) ==
    << [callback |-> good_morning_job, name |-> <<"samuil_good_morning_", now>>],
       [callback |-> today_events_job, name |-> <<"samuil_today_events_", now>>],
       [callback |-> evening_summary_job, name |-> <<"samuil_evening_summary_", now>>] >>

\* the other setup_jobs calls are not running
OthersNotRunning(c) ==
    \A o \in 1..MaxSetupCalls : o # c => setup_calls[o].pc \in {"idle", "done"}

\* an entry that does not test the job queue
SetupEnterNoQueueCheck(c) ==
    /\ setup_calls[c].pc = "idle"
    /\ IF c = 1 THEN TRUE ELSE setup_calls[c - 1].pc # "idle"
    /\ IF jobs_setup
       THEN /\ setup_calls' = [setup_calls EXCEPT ![c] =
                   [NoSetupCall EXCEPT !.pc = "done",
                                       !.sequential = OthersNotRunning(c)]]
            /\ UNCHANGED job_queue
       ELSE /\ setup_calls' = [setup_calls EXCEPT ![c] =
                   [NoSetupCall EXCEPT !.pc = "sleep1", !.now = clock,
                                       !.sequential = OthersNotRunning(c)]]
            /\ job_queue' = AfterRemoval(job_queue)
    /\ UNCHANGED <<chatVars, envVars, dedupeVars, jobs_setup, setup_time, job_names,
                   invocations, sent_log>>

\* an entry that does not test the jobs_setup flag
SetupEnterNoFlagCheck(c) ==
    /\ setup_calls[c].pc = "idle"
    /\ IF c = 1 THEN TRUE ELSE setup_calls[c - 1].pc # "idle"
    /\ IF ~has_job_queue
       THEN /\ setup_calls' = [setup_calls EXCEPT ![c] =
                   [NoSetupCall EXCEPT !.pc = "done",
                                       !.sequential = OthersNotRunning(c)]]
            /\ UNCHANGED job_queue
       ELSE /\ setup_calls' = [setup_calls EXCEPT ![c] =
                   [NoSetupCall EXCEPT !.pc = "sleep1", !.now = clock,
                                       !.sequential = OthersNotRunning(c)]]
            /\ job_queue' = AfterRemoval(job_queue)
    /\ UNCHANGED <<chatVars, envVars, dedupeVars, jobs_setup, setup_time, job_names,
                   invocations, sent_log>>

\* lines 1071-1099: entry, the two early returns, removal of old jobs, up to
\* the await of asyncio.sleep(1)
SetupEnter(c) ==
    /\ setup_calls[c].pc = "idle"
    /\ IF c = 1 THEN TRUE ELSE setup_calls[c - 1].pc # "idle"
    /\ IF jobs_setup \/ ~has_job_queue
       THEN /\ setup_calls' = [setup_calls EXCEPT ![c] =
                   [NoSetupCall EXCEPT !.pc = "done",
                                       !.sequential = OthersNotRunning(c)]]
            /\ UNCHANGED job_queue
       ELSE /\ setup_calls' = [setup_calls EXCEPT ![c] =
                   [NoSetupCall EXCEPT !.pc = "sleep1", !.now = clock,
                                       !.sequential = OthersNotRunning(c)]]
            /\ job_queue' = AfterRemoval(job_queue)
    /\ UNCHANGED <<chatVars, envVars, dedupeVars, jobs_setup, setup_time, job_names,
                   invocations, sent_log>>

\* a registration that clears the histories alone
SetupRegisterKeepsSentAt(c) ==
    /\ setup_calls[c].pc = "sleep1"
    /\ job_queue' = job_queue \o NewTimers(setup_calls[c].now)
    /\ job_names' = job_names \cup
           {NewTimers(setup_calls[c].now)[k].name : k \in 1..Len(NewTimers(setup_calls[c].now))}
    /\ jobs_setup' = TRUE
    /\ setup_time' = setup_calls[c].now
    /\ UNCHANGED _last_scheduled_sent_at
    /\ _last_scheduled_texts' = <<>>
    /\ setup_calls' = [setup_calls EXCEPT ![c].pc =
           IF GROUP_CHAT_ID THEN "sleep5" ELSE "done"]
    /\ UNCHANGED <<chatVars, envVars, invocations, sent_log>>

\* lines 1101-1141: after sleep(1): the registrations, the flag, the clearing
\* of the dedupe state, up to the await of asyncio.sleep(5)
SetupRegister(c) ==
    /\ setup_calls[c].pc = "sleep1"
    /\ job_queue' = job_queue \o NewTimers(setup_calls[c].now)
    /\ job_names' = job_names \cup
           {NewTimers(setup_calls[c].now)[k].name : k \in 1..Len(NewTimers(setup_calls[c].now))}
    /\ jobs_setup' = TRUE
    /\ setup_time' = setup_calls[c].now
    /\ _last_scheduled_sent_at' = <<>>
    /\ _last_scheduled_texts' = <<>>
    /\ setup_calls' = [setup_calls EXCEPT ![c].pc =
           IF GROUP_CHAT_ID THEN "sleep5" ELSE "done"]
    /\ UNCHANGED <<chatVars, envVars, invocations, sent_log>>

\* lines 1142-1149: after sleep(5): the startup message is sent only within
\* 30 seconds of the start of the call
SetupAfterSleep(c) ==
    /\ setup_calls[c].pc = "sleep5"
    /\ setup_calls' = [setup_calls EXCEPT ![c].pc =
           IF clock - setup_calls[c].now < 30 THEN "send" ELSE "done"]
    /\ UNCHANGED <<chatVars, envVars, dedupeVars, job_queue, jobs_setup, setup_time,
                   job_names, invocations, sent_log>>

\* lines 1149-1153: send_message returned: the startup message (one of three
\* fixed phrases) reached the group
SetupStartupSent(c) ==
    /\ setup_calls[c].pc = "send"
    /\ setup_calls' = [setup_calls EXCEPT ![c].pc = "done", ![c].startup_sent = TRUE]
    /\ UNCHANGED <<chatVars, envVars, dedupeVars, job_queue, jobs_setup, setup_time,
                   job_names, invocations, sent_log>>

\* lines 1154-1155: send_message raised
SetupStartupFailed(c) ==
    /\ setup_calls[c].pc = "send"
    /\ setup_calls' = [setup_calls EXCEPT ![c].pc = "done"]
    /\ UNCHANGED <<chatVars, envVars, dedupeVars, job_queue, jobs_setup, setup_time,
                   job_names, invocations, sent_log>>

(***************************************************************************)
(* bot.py:909-971, 974-1056, 409-445: the three job callbacks. They differ *)
(* in the names they use, in the generator they await, and in the read of  *)
(* the history for the prompt (lines 934 and 1015), which today_events_job *)
(* does not make.                                                          *)
(***************************************************************************)
\* lines 934, 1015: list(_last_scheduled_texts[job]) creates the key
TextsAfterPromptRead(job) ==
    IF job \in {good_morning_job, evening_summary_job}
       /\ job \notin DOMAIN _last_scheduled_texts
    THEN [k \in DOMAIN _last_scheduled_texts \cup {job} |->
            IF k = job THEN <<>> ELSE _last_scheduled_texts[k]]
    ELSE _last_scheduled_texts

\* lines 922, 987, 422: last_send_key in _last_scheduled_sent_at
MarkerSet(job, today) == last_send_key(job, today) \in DOMAIN _last_scheduled_sent_at

\* a callback that generates before it looks at the daily marker
JobStartNoMarkerCheck(i, job) ==
    /\ invocations[i].pc = "idle"
    /\ IF i = 1 THEN TRUE ELSE invocations[i - 1].pc # "idle"
    /\ \E k \in 1..Len(job_queue) : job_queue[k].callback = job
    /\ IF ~GROUP_CHAT_ID
       THEN /\ invocations' = [invocations EXCEPT ![i] = Returned("no_chat")]
            /\ UNCHANGED _last_scheduled_texts
       ELSE /\ invocations' = [invocations EXCEPT ![i] =
                   Running("generate", job, clock, <<>>)]
            /\ _last_scheduled_texts' = TextsAfterPromptRead(job)
    /\ UNCHANGED <<chatVars, envVars, _last_scheduled_sent_at, managerVars, sent_log>>

\* a timer of the job queue fires the callback: lines 911-947 (976-1028,
\* 411-426), up to the await of the generator
JobStart(i, job) ==
    /\ invocations[i].pc = "idle"
    /\ IF i = 1 THEN TRUE ELSE invocations[i - 1].pc # "idle"
    /\ \E k \in 1..Len(job_queue) : job_queue[k].callback = job
    /\ IF ~GROUP_CHAT_ID \/ MarkerSet(job, DateOf(clock))
       THEN /\ invocations' = [invocations EXCEPT ![i] =
                   Returned(IF ~GROUP_CHAT_ID THEN "no_chat" ELSE "already_sent")]
            /\ UNCHANGED _last_scheduled_texts
       ELSE /\ invocations' = [invocations EXCEPT ![i] =
                   Running("generate", job, clock, <<>>)]
            /\ _last_scheduled_texts' = TextsAfterPromptRead(job)
    /\ UNCHANGED <<chatVars, envVars, _last_scheduled_sent_at, managerVars, sent_log>>

\* lines 954-956 (1035-1037, 427-429): the generator returned no text
JobGenerationFailed(i) ==
    /\ invocations[i].pc = "generate"
    /\ invocations' = [invocations EXCEPT ![i] = Returned("no_text")]
    /\ UNCHANGED <<chatVars, envVars, dedupeVars, managerVars, sent_log>>

\* lines 954-963 (1035-1044, 427-437): the generator returned a text; the
\* dedupe check, up to the await of send_message
JobGenerated(i, text) ==
    /\ invocations[i].pc = "generate"
    /\ LET job == invocations[i].job
           now == invocations[i].now
       IN /\ invocations' = [invocations EXCEPT ![i] =
                 IF _should_dedupe_scheduled_send(job, now, text)
                 THEN Returned("dedup")
                 ELSE Running("send", job, now, text)]
          /\ _last_scheduled_texts' = TextsAfterDedupe(job, now, text)
          /\ _openai_cache' =
                 IF job \in {good_morning_job, evening_summary_job}
                 THEN CacheAfterChat(FALSE, <<job, now>>, text, clock)
                 ELSE _openai_cache
    /\ UNCHANGED <<handlerVars, daily_summary_log, envVars, _last_scheduled_sent_at,
                   managerVars, sent_log>>

\* a callback that calls _record_scheduled_send twice after the send
JobSentRecordsTwice(i) ==
    /\ invocations[i].pc = "send"
    /\ LET job == invocations[i].job
           now == invocations[i].now
           text == invocations[i].text
       IN /\ _last_scheduled_sent_at' =
                 SetSentAt(SetSentAt(_last_scheduled_sent_at, NameKey(job), now),
                           last_send_key(job, DateOf(now)), now)
          /\ _last_scheduled_texts' =
                 AppendText(AppendText(_last_scheduled_texts, job, text), job, text)
          /\ sent_log' = Append(sent_log, [job |-> job, now |-> now, text |-> text])
          /\ daily_summary_log' = LogAfterSummary(job, DateOf(now))
    /\ invocations' = [invocations EXCEPT ![i] = Returned("sent")]
    /\ UNCHANGED <<handlerVars, _openai_cache, envVars, managerVars>>

\* lines 963-969 (1044-1050, 437-443): send_message returned; the send is
\* recorded and the daily marker set
JobSent(i) ==
    /\ invocations[i].pc = "send"
    /\ LET job == invocations[i].job
           now == invocations[i].now
           text == invocations[i].text
       IN /\ _last_scheduled_sent_at' =
                 SetSentAt(SetSentAt(_last_scheduled_sent_at, NameKey(job), now),
                           last_send_key(job, DateOf(now)), now)
          /\ _last_scheduled_texts' = AppendText(_last_scheduled_texts, job, text)
          /\ sent_log' = Append(sent_log, [job |-> job, now |-> now, text |-> text])
          /\ daily_summary_log' = LogAfterSummary(job, DateOf(now))
    /\ invocations' = [invocations EXCEPT ![i] = Returned("sent")]
    /\ UNCHANGED <<handlerVars, _openai_cache, envVars, managerVars>>

\* an except branch that sets the daily marker all the same
JobSendFailedSetsMarker(i) ==
    /\ invocations[i].pc = "send"
    /\ _last_scheduled_sent_at' =
           SetSentAt(_last_scheduled_sent_at,
                     last_send_key(invocations[i].job, DateOf(invocations[i].now)),
                     invocations[i].now)
    /\ invocations' = [invocations EXCEPT ![i] = Returned("send_failed")]
    /\ UNCHANGED <<chatVars, envVars, _last_scheduled_texts, managerVars, sent_log>>

\* lines 970-971 (1055-1056, 444-445): send_message raised
JobSendFailed(i) ==
    /\ invocations[i].pc = "send"
    /\ invocations' = [invocations EXCEPT ![i] = Returned("send_failed")]
    /\ UNCHANGED <<chatVars, envVars, dedupeVars, managerVars, sent_log>>

Next ==
    \/ \E d \in TickSteps : Tick(d)
    \/ \E c \in 1..MaxSetupCalls : SetupEnter(c)
    \/ \E c \in 1..MaxSetupCalls : SetupRegister(c)
    \/ \E c \in 1..MaxSetupCalls : SetupAfterSleep(c)
    \/ \E c \in 1..MaxSetupCalls : SetupStartupSent(c)
    \/ \E c \in 1..MaxSetupCalls : SetupStartupFailed(c)
    \/ \E i \in 1..MaxInvocations, job \in JobCallbacks : JobStart(i, job)
    \/ \E i \in 1..MaxInvocations : JobGenerationFailed(i)
    \/ \E i \in 1..MaxInvocations, text \in GeneratedTexts : JobGenerated(i, text)
    \/ \E i \in 1..MaxInvocations : JobSent(i)
    \/ \E i \in 1..MaxInvocations : JobSendFailed(i)

Spec == Init /\ [][Next]_vars

\* SpecSetup: the registrar alone, no timer firing yet
NextSetup ==
    \/ \E d \in TickSteps : Tick(d)
    \/ \E c \in 1..MaxSetupCalls : SetupEnter(c)
    \/ \E c \in 1..MaxSetupCalls : SetupRegister(c)
    \/ \E c \in 1..MaxSetupCalls : SetupAfterSleep(c)
    \/ \E c \in 1..MaxSetupCalls : SetupStartupSent(c)
    \/ \E c \in 1..MaxSetupCalls : SetupStartupFailed(c)

SpecSetup == Init /\ [][NextSetup]_vars

\* SpecJobs: the job callbacks alone, from the state in which post_init has
\* returned: the only setup_jobs call registered the three timers at StartClock
InitJobsState ==
    /\ clock = StartClock
    /\ GROUP_CHAT_ID \in BOOLEAN
    /\ has_job_queue = TRUE
    /\ _last_scheduled_sent_at = <<>>
    /\ _last_scheduled_texts = <<>>
    /\ job_queue = NewTimers(StartClock)
    /\ jobs_setup = TRUE
    /\ setup_time = StartClock
    /\ job_names = {NewTimers(StartClock)[k].name : k \in 1..Len(NewTimers(StartClock))}
    /\ setup_calls = [c \in 1..MaxSetupCalls |->
           IF c = 1
           THEN [NoSetupCall EXCEPT !.pc = "done", !.now = StartClock,
                                    !.sequential = TRUE]
           ELSE NoSetupCall]
    /\ invocations = [i \in 1..MaxInvocations |-> NoInvocation]
    /\ sent_log = <<>>

InitJobs == InitJobsState /\ InitChat

NextJobs ==
    \/ \E d \in TickSteps : Tick(d)
    \/ \E i \in 1..MaxInvocations, job \in JobCallbacks : JobStart(i, job)
    \/ \E i \in 1..MaxInvocations : JobGenerationFailed(i)
    \/ \E i \in 1..MaxInvocations, text \in GeneratedTexts : JobGenerated(i, text)
    \/ \E i \in 1..MaxInvocations : JobSent(i)
    \/ \E i \in 1..MaxInvocations : JobSendFailed(i)

SpecJobs == InitJobs /\ [][NextJobs]_vars

\* bot.py:1218-1241: run_polling awaits post_init, that is the first
\* setup_jobs call, and then starts to poll and to dispatch chat updates
ServingTraffic == setup_calls[1].pc = "done"

(***************************************************************************)
(* Claims about the job callbacks and the registrar.                       *)
(***************************************************************************)
\* C1 as written: once the daily marker of a job is set for date D, which the
\* first accepted send of that job for D does, no further message of that job
\* is transmitted for D: no two accepted sends share job and date.
C1_OncePerDay ==
    \A a, b \in DOMAIN sent_log :
        (a < b /\ sent_log[a].job = sent_log[b].job)
        => DateOf(sent_log[a].now) # DateOf(sent_log[b].now)

\* C2 as written: two invocations of one job that generate distinct texts
\* give at most one recorded send per 600-second window.
C2_OneRecordPerWindow ==
    \A a, b \in DOMAIN sent_log :
        ( /\ a < b
          /\ sent_log[a].job = sent_log[b].job
          /\ sent_log[a].text # sent_log[b].text )
        => Abs(sent_log[a].now - sent_log[b].now) >= 600

\* the number of timers of the job queue that run the callback
TimerCount(job) ==
    Cardinality({k \in 1..Len(job_queue) : job_queue[k].callback = job})

StartedSetupCalls == {c \in 1..MaxSetupCalls : setup_calls[c].pc # "idle"}

\* C3 as written: once two or more setup_jobs calls, however interleaved, have
\* all returned, the job queue holds exactly one timer per job callback.
C3_OneTimerAfterAnyInterleaving ==
    ( /\ has_job_queue
      /\ Cardinality(StartedSetupCalls) >= 2
      /\ \A c \in StartedSetupCalls : setup_calls[c].pc = "done" )
    => \A job \in JobCallbacks : TimerCount(job) = 1

\* C4: once two or more setup_jobs calls, each started after the calls before
\* it had returned, have all returned, the job queue holds exactly one timer
\* per job callback.
C4_IdempotentRegistration ==
    ( /\ has_job_queue
      /\ Cardinality(StartedSetupCalls) >= 2
      /\ \A c \in StartedSetupCalls :
             setup_calls[c].pc = "done" /\ setup_calls[c].sequential )
    => \A job \in JobCallbacks : TimerCount(job) = 1

\* C4 witness: the first call registered the timers, the second call started
\* after it had returned and has returned too.
C4_Witness ==
    /\ has_job_queue
    /\ jobs_setup
    /\ Len(job_queue) = 3
    /\ setup_calls[1].pc = "done"
    /\ setup_calls[2].pc = "done"
    /\ setup_calls[2].sequential

\* the sends a and b of the log are consecutive sends of one job
ConsecutiveSends(a, b) ==
    /\ a < b
    /\ sent_log[a].job = sent_log[b].job
    /\ \A m \in DOMAIN sent_log : (a < m /\ m < b) => sent_log[m].job # sent_log[a].job

\* C10 as written: two consecutive accepted messages of a job are never equal
\* after normalization and never share more than 0.8 of their words.
C10_ConsecutiveNeverDuplicate ==
    \A a, b \in DOMAIN sent_log :
        ConsecutiveSends(a, b) =>
            LET A == _normalize_text_for_dedupe(sent_log[a].text)
                B == _normalize_text_for_dedupe(sent_log[b].text)
            IN /\ A # B
               /\ 10 * Cardinality(WordSet(A) \cap WordSet(B)) <=
                      8 * Max(Cardinality(WordSet(A)), Cardinality(WordSet(B)))

\* every daily marker and every last-sent timestamp of the dedupe state was
\* written for a send the transport accepted
MarkersComeFromSends ==
    \A job \in JobCallbacks :
        /\ NameKey(job) \in DOMAIN _last_scheduled_sent_at =>
               \E k \in DOMAIN sent_log :
                   /\ sent_log[k].job = job
                   /\ sent_log[k].now = _last_scheduled_sent_at[NameKey(job)]
        /\ \A D \in {DateOf(StartClock), DateOf(StartClock) + 1} :
               MarkerSet(job, D) =>
                   \E k \in DOMAIN sent_log :
                       /\ sent_log[k].job = job
                       /\ DateOf(sent_log[k].now) = D

\* the step is the return of invocation i from the except branch
SendFailedStep(i) ==
    /\ invocations[i].pc = "send"
    /\ invocations'[i].outcome = "send_failed"

\* C12: a step in which send_message raises in a job callback changes neither
\* the last-sent timestamps, nor the daily markers, nor the histories, and no
\* message is accepted; and all markers and last-sent timestamps stem from
\* accepted sends, so that a failed send blocks no later firing.
C12_FailedSendLeavesNoTrace ==
    /\ []MarkersComeFromSends
    /\ [][\A i \in 1..MaxInvocations :
              SendFailedStep(i) =>
                  /\ _last_scheduled_sent_at' = _last_scheduled_sent_at
                  /\ _last_scheduled_texts' = _last_scheduled_texts
                  /\ sent_log' = sent_log]_vars

\* C12 witness: the first firing of a job failed at the transport, nothing was
\* sent, and a later firing at the same date has passed the marker check and
\* the dedupe check and is sending.
C12_Witness ==
    /\ invocations[1].outcome = "send_failed"
    /\ sent_log = <<>>
    /\ _last_scheduled_sent_at = <<>>
    /\ invocations[2].pc = "send"
    /\ invocations[2].job = today_events_job
    /\ invocations[2].now > StartClock
    /\ DateOf(invocations[2].now) = DateOf(StartClock)

\* C13 as written, for the first firing after the only setup_jobs call: when
\* the generator returns no text, nothing is sent and the dedupe state and the
\* registrar state are what setup_jobs left: both dicts empty, jobs_setup
\* set, the three timers and their names in place.
C13_GenerationFailureLeavesState ==
    ( /\ invocations[1].outcome = "no_text"
      /\ invocations[2].pc = "idle"
      /\ setup_calls[2].pc = "idle" )
    => /\ sent_log = <<>>
       /\ _last_scheduled_sent_at = <<>>
       /\ _last_scheduled_texts = <<>>
       /\ jobs_setup
       /\ job_queue = NewTimers(setup_time)
       /\ job_names = {job_queue[k].name : k \in 1..Len(job_queue)}

\* C15: a firing of a job that finds the job's marker of today set returns
\* at once and changes nothing else; an invocation awaits the generator only
\* if it found the marker absent, and reaches the suppress check and the
\* transport only from there.
C15_MarkerCheckedFirst ==
    [][\A i \in 1..MaxInvocations :
          /\ \A job \in JobCallbacks :
                 (JobStart(i, job) /\ MarkerSet(job, DateOf(clock))) =>
                     /\ invocations'[i].pc = "done"
                     /\ UNCHANGED <<chatVars, envVars, dedupeVars, managerVars, sent_log>>
          /\ (invocations[i].pc = "idle" /\ invocations'[i].pc = "generate") =>
                 ~MarkerSet(invocations'[i].job, DateOf(invocations'[i].now))
          /\ (invocations[i].pc # "send" /\ invocations'[i].pc = "send") =>
                 invocations[i].pc = "generate"
          /\ (invocations[i].pc # "done" /\ invocations'[i].outcome = "dedup") =>
                 invocations[i].pc = "generate"]_vars

\* C15 witness: the first firing sent its message and set the marker; the
\* second firing found the marker and returned.
C15_Witness ==
    /\ invocations[1].outcome = "sent"
    /\ invocations[2].outcome = "already_sent"
    /\ Len(sent_log) = 1
    /\ MarkerSet(sent_log[1].job, DateOf(sent_log[1].now))

\* the step holds one call _record_scheduled_send(e.job, e.now, e.text)
RecordedInStep(e) ==
    /\ NameKey(e.job) \in DOMAIN _last_scheduled_sent_at'
    /\ _last_scheduled_sent_at'[NameKey(e.job)] = e.now
    /\ e.job \in DOMAIN _last_scheduled_texts'
    /\ _last_scheduled_texts'[e.job] = DequeAppend(HistoryOf(e.job), e.text)
    /\ \A job \in JobCallbacks \ {e.job} :
           /\ (job \in DOMAIN _last_scheduled_texts') = (job \in DOMAIN _last_scheduled_texts)
           /\ job \in DOMAIN _last_scheduled_texts =>
                  _last_scheduled_texts'[job] = _last_scheduled_texts[job]
           /\ (NameKey(job) \in DOMAIN _last_scheduled_sent_at')
                  = (NameKey(job) \in DOMAIN _last_scheduled_sent_at)
           /\ NameKey(job) \in DOMAIN _last_scheduled_sent_at =>
                  _last_scheduled_sent_at'[NameKey(job)] = _last_scheduled_sent_at[NameKey(job)]

\* the step holds no call of _record_scheduled_send: each history and each
\* last-sent timestamp stays, or is cleared by setup_jobs
NothingRecordedInStep ==
    /\ \A job \in JobCallbacks :
           job \in DOMAIN _last_scheduled_texts' =>
               _last_scheduled_texts'[job] = HistoryOf(job)
    /\ \A key \in DOMAIN _last_scheduled_sent_at' :
           /\ key \in DOMAIN _last_scheduled_sent_at
           /\ _last_scheduled_sent_at'[key] = _last_scheduled_sent_at[key]

\* C16: the step in which the transport accepts a scheduled message, and no
\* other step, records it, once: the job's last-sent timestamp becomes the
\* invocation's time and its text is appended once to the job's history
\* before the callback yields again.
C16_RecordOncePerSend ==
    [][IF sent_log' = sent_log
       THEN NothingRecordedInStep
       ELSE /\ Len(sent_log') = Len(sent_log) + 1
            /\ SubSeq(sent_log', 1, Len(sent_log)) = sent_log
            /\ RecordedInStep(sent_log'[Len(sent_log')])]_vars

\* C16 witness: one message was accepted and the dedupe state holds exactly
\* its record.
C16_Witness ==
    /\ Len(sent_log) = 1
    /\ invocations[1].outcome = "sent"
    /\ invocations[2].outcome = "send_failed"
    /\ HistoryOf(sent_log[1].job) = <<sent_log[1].text>>
    /\ _last_scheduled_sent_at[NameKey(sent_log[1].job)] = sent_log[1].now

\* C17 as written: the messages of one job are transmitted and recorded in
\* the order in which their invocations took `now`, so that the job's
\* last-sent timestamp, the `now` of the latest record, never decreases.
C17_SendsInInvocationOrder ==
    \A a, b \in DOMAIN sent_log :
        (a < b /\ sent_log[a].job = sent_log[b].job)
        => sent_log[a].now <= sent_log[b].now

\* the step is the entry of call c into setup_jobs
SetupEntryStep(c) ==
    /\ setup_calls[c].pc = "idle"
    /\ setup_calls'[c].pc # "idle"

\* C18: a setup_jobs call that finds no job queue returns at once: it adds
\* and removes no timer, leaves jobs_setup, setup_time and job_names alone,
\* does not clear the dedupe state and sends no startup message; without a
\* job queue the registrar stays as constructed.
C18_NoPartialRegistration ==
    /\ [](~has_job_queue =>
             /\ job_queue = <<>>
             /\ ~jobs_setup
             /\ job_names = {}
             /\ setup_time = NoTime
             /\ \A c \in 1..MaxSetupCalls :
                    /\ setup_calls[c].pc \in {"idle", "done"}
                    /\ ~setup_calls[c].startup_sent)
    /\ [][\A c \in 1..MaxSetupCalls :
              (SetupEntryStep(c) /\ ~has_job_queue) =>
                  /\ setup_calls'[c].pc = "done"
                  /\ UNCHANGED <<job_queue, jobs_setup, setup_time, job_names,
                                 dedupeVars, sent_log>>]_vars

\* C18 witness: there is no job queue and two setup_jobs calls have returned.
C18_Witness ==
    /\ ~has_job_queue
    /\ setup_calls[1].pc = "done"
    /\ setup_calls[2].pc = "done"
    /\ job_queue = <<>>

\* C19 as written: the bot never serves chat updates after setup_jobs found
\* no job queue, with no scheduled job registered.
C19_NoServingWithoutJobs ==
    ~(ServingTraffic /\ ~has_job_queue /\ job_queue = <<>>)

\* C20: jobs_setup, once true, stays true; a setup_jobs call that finds it
\* true returns at once, leaves the timers, job_names, setup_time, the dedupe
\* state and the daily markers unchanged and sends no startup message.
C20_InstalledStaysInstalled ==
    [][/\ jobs_setup => jobs_setup'
       /\ \A c \in 1..MaxSetupCalls :
              /\ (SetupEntryStep(c) /\ jobs_setup) =>
                     /\ setup_calls'[c].pc = "done"
                     /\ ~setup_calls'[c].startup_sent
                     /\ UNCHANGED <<job_queue, jobs_setup, setup_time, job_names,
                                    dedupeVars, sent_log>>
              /\ setup_calls[c].pc = "done" => setup_calls'[c] = setup_calls[c]]_vars

\* C20 witness: the second setup_jobs call started after the first had
\* returned, found jobs_setup true and returned; the record and the marker of
\* a sent message are in place.
C20_Witness ==
    /\ jobs_setup
    /\ setup_calls[1].pc = "done"
    /\ setup_calls[2].pc = "done"
    /\ setup_calls[2].sequential
    /\ Len(job_queue) = 3
    /\ Len(sent_log) = 1
    /\ MarkerSet(sent_log[1].job, DateOf(sent_log[1].now))
    /\ HistoryOf(sent_log[1].job) = <<sent_log[1].text>>

(***************************************************************************)
(* SpecDedupe: the two dedupe functions called directly, with inputs drawn *)
(* from bounded sets.                                                      *)
(***************************************************************************)
\* at most this many _record_scheduled_send calls in SpecDedupe
MaxRecordCalls == 2

RecordJobs == {good_morning_job, evening_summary_job}

RecordTimes == {0, Cooldown}

CallTimes == {0, Cooldown - 1, Cooldown}

RecordTexts == {TextBlank, TextHi, TextDobroe, TextFive, TextTwenty}

CandidateTexts ==
    RecordTexts \cup {TextEmpty, TextHiSpaced, TextFiveSpaced, TextFiveReordered,
                      TextFourOfFive, TextFiveOfSix, TextTwentyReordered}

TotalRecorded ==
    Len(HistoryOf(good_morning_job)) + Len(HistoryOf(evening_summary_job))
        + Len(HistoryOf(today_events_job))

InitDedupe ==
    /\ clock = 0
    /\ GROUP_CHAT_ID = TRUE
    /\ has_job_queue = TRUE
    /\ _last_scheduled_sent_at = <<>>
    /\ _last_scheduled_texts = <<>>
    /\ job_queue = <<>>
    /\ jobs_setup = FALSE
    /\ setup_time = NoTime
    /\ job_names = {}
    /\ setup_calls = [c \in 1..MaxSetupCalls |-> NoSetupCall]
    /\ invocations = [i \in 1..MaxInvocations |-> NoInvocation]
    /\ sent_log = <<>>
    /\ InitChat

\* _record_scheduled_send(job_name, now, text), bot.py:534-538
RecordCall(job_name, now, text) ==
    /\ TotalRecorded < MaxRecordCalls
    /\ _last_scheduled_sent_at' = SetSentAt(_last_scheduled_sent_at, NameKey(job_name), now)
    /\ _last_scheduled_texts' = AppendText(_last_scheduled_texts, job_name, text)
    /\ UNCHANGED <<chatVars, envVars, managerVars, invocations, sent_log>>

\* _should_dedupe_scheduled_send(job_name, now, text), bot.py:500-531
DedupeCall(job_name, now, text) ==
    /\ _last_scheduled_texts' = TextsAfterDedupe(job_name, now, text)
    /\ UNCHANGED <<chatVars, envVars, _last_scheduled_sent_at, managerVars, invocations,
                   sent_log>>

NextDedupe ==
    \/ \E job_name \in RecordJobs, now \in RecordTimes, text \in RecordTexts :
           RecordCall(job_name, now, text)
    \/ \E job_name \in JobCallbacks, now \in CallTimes, text \in CandidateTexts :
           DedupeCall(job_name, now, text)

SpecDedupe == InitDedupe /\ [][NextDedupe]_vars

(***************************************************************************)
(* Claims about the dedupe functions, checked under SpecDedupe.            *)
(***************************************************************************)
\* the text is empty or consists only of whitespace
IsBlank(text) == \A i \in 1..Len(text) : IsSpace(text[i])

LastSentAt(job_name) == _last_scheduled_sent_at[NameKey(job_name)]

HasLastSentAt(job_name) == NameKey(job_name) \in DOMAIN _last_scheduled_sent_at

\* the texts of the job's history
HistoryTexts(job_name) ==
    {HistoryOf(job_name)[k] : k \in 1..Len(HistoryOf(job_name))}

\* C5 as written: after a record at T1, every candidate text at T2 with
\* T1 < T2 < T1 + 600 is suppressed.
C5_CooldownDominatesAnyText ==
    \A job_name \in JobCallbacks, T2 \in CallTimes, Y \in CandidateTexts :
        ( /\ HasLastSentAt(job_name)
          /\ LastSentAt(job_name) < T2
          /\ T2 - LastSentAt(job_name) < 600 )
        => _should_dedupe_scheduled_send(job_name, T2, Y)

\* C5 amended: after a record at T1, every candidate text that is not empty
\* or whitespace only is suppressed at T2 with T1 < T2 < T1 + 600.
C5_CooldownDominatesNonBlankText ==
    \A job_name \in JobCallbacks, T2 \in CallTimes, Y \in CandidateTexts :
        ( /\ HasLastSentAt(job_name)
          /\ LastSentAt(job_name) < T2
          /\ T2 - LastSentAt(job_name) < 600
          /\ ~IsBlank(Y) )
        => _should_dedupe_scheduled_send(job_name, T2, Y)

\* C5 witness: a send of "Hi" was recorded at 0 and a candidate unrelated to it
\* is suppressed 599 seconds later.
C5_Witness ==
    /\ HasLastSentAt(good_morning_job)
    /\ LastSentAt(good_morning_job) = 0
    /\ HistoryOf(good_morning_job) = <<TextHi>>
    /\ _should_dedupe_scheduled_send(good_morning_job, 599, TextFourOfFive)

\* C6 as written: a text X recorded at T as the job's only send is suppressed
\* again at every T' >= T + 600.
C6_DuplicateTextAnyText ==
    \A job_name \in JobCallbacks, T1 \in CallTimes :
        ( /\ HasLastSentAt(job_name)
          /\ Len(HistoryOf(job_name)) = 1
          /\ T1 - LastSentAt(job_name) >= 600 )
        => _should_dedupe_scheduled_send(job_name, T1, HistoryOf(job_name)[1])

\* C6 amended: a recorded text X that is not empty or whitespace only and is
\* still in the job's history is suppressed at every time, in particular at
\* every T' at or beyond the cooldown window of its record.
C6_DuplicateNonBlankText ==
    \A job_name \in JobCallbacks, T1 \in CallTimes :
        \A X \in HistoryTexts(job_name) :
            ~IsBlank(X) => _should_dedupe_scheduled_send(job_name, T1, X)

\* C6 witness: "Hi" was recorded at 0, a second text after it, and "Hi" is
\* suppressed at 600, when the cooldown of both records is over.
C6_Witness ==
    /\ HasLastSentAt(evening_summary_job)
    /\ LastSentAt(evening_summary_job) = 0
    /\ HistoryOf(evening_summary_job) = <<TextHi, TextFive>>
    /\ ~TooSoon(evening_summary_job, 600)
    /\ _should_dedupe_scheduled_send(evening_summary_job, 600, TextHi)

\* C7: an empty or whitespace-only candidate is never suppressed, whatever
\* the job, the time and the dedupe state.
C7_EmptyCandidatePassThrough ==
    \A job_name \in JobCallbacks, T \in CallTimes, text \in CandidateTexts :
        IsBlank(text) => ~_should_dedupe_scheduled_send(job_name, T, text)

\* C7 witness: a send was recorded at 0 and, 599 seconds later, inside the
\* cooldown, the whitespace-only candidate is not suppressed.
C7_Witness ==
    /\ HasLastSentAt(good_morning_job)
    /\ LastSentAt(good_morning_job) = 0
    /\ HistoryOf(good_morning_job) # <<>>
    /\ TooSoon(good_morning_job, 599)
    /\ ~_should_dedupe_scheduled_send(good_morning_job, 599, TextBlank)

\* C8 as written: with exactly "Доброе утро, как дела?" in the history and the
\* last send 600 seconds old, "Как дела, доброе утро?" is suppressed and
\* "Спокойной ночи, отдыхай." is not.
C8_SimilarityScenario ==
    \A job_name \in JobCallbacks :
        ( /\ HistoryOf(job_name) = <<TextDobroe>>
          /\ HasLastSentAt(job_name)
          /\ LastSentAt(job_name) = 0 )
        => /\ _should_dedupe_scheduled_send(job_name, 600, TextKakDela)
           /\ ~_should_dedupe_scheduled_send(job_name, 600, TextNochi)

\* The words of a normalized text, stated without the splitting loop: the
\* maximal stretches that hold no space.
RefWords(n) ==
    {SubSeq(n, a, b) : <<a, b>> \in
        {p \in (1..Len(n)) \X (1..Len(n)) :
            /\ p[1] <= p[2]
            /\ \A i \in p[1]..p[2] : n[i] # 32
            /\ (p[1] = 1 \/ n[p[1] - 1] = 32)
            /\ (p[2] = Len(n) \/ n[p[2] + 1] = 32)}}

\* The reference decision of C9, rules (1) to (5).
RefDecision(job_name, now, text) ==
    LET n == _normalize_text_for_dedupe(text)
        H == {_normalize_text_for_dedupe(x) : x \in HistoryTexts(job_name)}
    IN IF n = <<>> THEN FALSE
       ELSE \/ /\ HasLastSentAt(job_name)
               /\ Abs(now - LastSentAt(job_name)) < 600
            \/ n \in H
            \/ \E p \in H :
                  /\ Len(n) > 20
                  /\ Len(p) > 20
                  /\ 10 * Cardinality(RefWords(n) \cap RefWords(p)) >
                         8 * Max(Cardinality(RefWords(n)), Cardinality(RefWords(p)))

\* C9: the suppress decision equals the reference decision (1)-(5) for every
\* job state, timestamp and candidate.
C9_DecisionOrder ==
    \A job_name \in JobCallbacks, now \in CallTimes, text \in CandidateTexts :
        _should_dedupe_scheduled_send(job_name, now, text)
            = RefDecision(job_name, now, text)

\* C9 witness: one state in which rules (3), (4) and (5) each decide a
\* candidate, the cooldown being over: an exact match after normalization, a
\* reordering of the same five words, four shared words of five (0.8, not above).
C9_Witness ==
    /\ HistoryOf(good_morning_job) = <<TextHi, TextFive>>
    /\ HasLastSentAt(good_morning_job)
    /\ LastSentAt(good_morning_job) = 0
    /\ _should_dedupe_scheduled_send(good_morning_job, 600, TextFiveSpaced)
    /\ _should_dedupe_scheduled_send(good_morning_job, 600, TextFiveReordered)
    /\ _should_dedupe_scheduled_send(good_morning_job, 600, TextFiveOfSix)
    /\ ~_should_dedupe_scheduled_send(good_morning_job, 600, TextFourOfFive)
    /\ _should_dedupe_scheduled_send(good_morning_job, 599, TextFourOfFive)

(***************************************************************************)
(* SpecHistory: _record_scheduled_send called again and again with texts   *)
(* that differ from the texts recorded before for the job; sent_log keeps  *)
(* every record call in order.                                             *)
(***************************************************************************)
\* at most this many _record_scheduled_send calls in SpecHistory
MaxHistoryCalls == 6

\* the texts recorded in SpecHistory: pairwise different after normalization,
\* no two sharing more than 0.8 of their words
HistoryRecordTexts ==
    {TextBlank, TextHi, TextDobroe, TextKakDela, TextNochi, TextFive, TextFourOfFive}

\* _record_scheduled_send(job_name, now, text), bot.py:534-538, with the call
\* kept in sent_log
RecordLogged(job_name, now, text) ==
    /\ Len(sent_log) < MaxHistoryCalls
    /\ \A k \in DOMAIN sent_log :
           sent_log[k].job = job_name => sent_log[k].text # text
    /\ _last_scheduled_sent_at' = SetSentAt(_last_scheduled_sent_at, NameKey(job_name), now)
    /\ _last_scheduled_texts' = AppendText(_last_scheduled_texts, job_name, text)
    /\ sent_log' = Append(sent_log, [job |-> job_name, now |-> now, text |-> text])
    /\ UNCHANGED <<chatVars, envVars, managerVars, invocations>>

\* the calls are made for one job, each ten minutes after the call before it
NextHistory ==
    \E text \in HistoryRecordTexts :
        RecordLogged(good_morning_job, Len(sent_log) * Cooldown, text)

SpecHistory == InitDedupe /\ [][NextHistory]_vars

(***************************************************************************)
(* Claims about the history bound, checked under SpecHistory.              *)
(***************************************************************************)
\* the texts recorded for the job so far, oldest first
RecordedTexts(job_name) ==
    LET log == SelectSeq(sent_log, LAMBDA r : r.job = job_name)
    IN [k \in 1..Len(log) |-> log[k].text]

\* no two texts of the sequence are equal after normalization or similar
PairwiseDissimilar(R) ==
    \A a, b \in 1..Len(R) :
        a < b => LET A == _normalize_text_for_dedupe(R[a])
                     B == _normalize_text_for_dedupe(R[b])
                 IN A # B /\ ~IsSimilar(A, B)

\* the history is the last 5 recorded texts, oldest first
HistoryIsLastFive(job_name) ==
    LET R == RecordedTexts(job_name)
        n == Len(R)
    IN /\ Len(HistoryOf(job_name)) <= 5
       /\ HistoryOf(job_name) = SubSeq(R, Max(1, n - 4), n)

\* C11 as written: the history holds at most 5 texts, the latest ones; after
\* 6 or more records of pairwise dissimilar texts, outside the cooldown, the
\* texts recorded before the last 5 are not suppressed and each of the last 5 is.
C11_HistoryBoundAnyText ==
    \A job_name \in JobCallbacks :
        LET R == RecordedTexts(job_name)
            n == Len(R)
        IN /\ HistoryIsLastFive(job_name)
           /\ (n >= 6 /\ PairwiseDissimilar(R)) =>
                  \A T \in CallTimes :
                      ~TooSoon(job_name, T) =>
                          /\ \A k \in 1..(n - 5) :
                                 ~_should_dedupe_scheduled_send(job_name, T, R[k])
                          /\ \A k \in (n - 4)..n :
                                 _should_dedupe_scheduled_send(job_name, T, R[k])

\* C11 amended: the same, the last 5 texts being suppressed when they are not
\* empty or whitespace only.
C11_HistoryBoundNonBlank ==
    \A job_name \in JobCallbacks :
        LET R == RecordedTexts(job_name)
            n == Len(R)
        IN /\ HistoryIsLastFive(job_name)
           /\ (n >= 6 /\ PairwiseDissimilar(R)) =>
                  \A T \in CallTimes :
                      ~TooSoon(job_name, T) =>
                          /\ \A k \in 1..(n - 5) :
                                 ~_should_dedupe_scheduled_send(job_name, T, R[k])
                          /\ \A k \in (n - 4)..n :
                                 ~IsBlank(R[k]) =>
                                     _should_dedupe_scheduled_send(job_name, T, R[k])

\* C11 witness: six texts were recorded for good_morning_job, "Hi" first and
\* none of them blank; at 600, outside the cooldown, "Hi" is not suppressed
\* and the latest text and the second recorded text are.
C11_Witness ==
    LET R == RecordedTexts(good_morning_job) IN
    /\ Len(R) = 6
    /\ R[1] = TextHi
    /\ \A k \in 1..6 : ~IsBlank(R[k])
    /\ Len(HistoryOf(good_morning_job)) = 5
    /\ ~TooSoon(good_morning_job, 600)
    /\ ~_should_dedupe_scheduled_send(good_morning_job, 600, TextHi)
    /\ _should_dedupe_scheduled_send(good_morning_job, 600, R[2])
    /\ _should_dedupe_scheduled_send(good_morning_job, 600, R[6])

(***************************************************************************)
(* Claims about the effects of the dedupe functions, checked under         *)
(* SpecDedupe.                                                             *)
(***************************************************************************)
\* the step is a call of _should_dedupe_scheduled_send
DedupeCallStep ==
    \E job_name \in JobCallbacks, now \in CallTimes, text \in CandidateTexts :
        DedupeCall(job_name, now, text)

\* C14 as written: a call of _should_dedupe_scheduled_send, for any job name,
\* time and candidate, leaves _last_scheduled_sent_at and
\* _last_scheduled_texts as they were, key sets included.
C14_DedupeHasNoSideEffects ==
    [][DedupeCallStep =>
          /\ _last_scheduled_sent_at' = _last_scheduled_sent_at
          /\ _last_scheduled_texts' = _last_scheduled_texts
          /\ DOMAIN _last_scheduled_texts' = DOMAIN _last_scheduled_texts]_vars

(***************************************************************************)
(* SpecRecovery: setup_jobs in a process whose job queue already holds     *)
(* timers, left by an initialisation that did not reach jobs_setup = True. *)
(***************************************************************************)
\* at most this many timers are in the job queue when the first call starts
MaxStaleTimers == 3

\* a callback that is not one of the three scheduled jobs
other_callback == "other_callback"

RECURSIVE QueuesOfLen(_)
QueuesOfLen(n) ==
    IF n = 0 THEN {<<>>}
    ELSE {Append(q, [callback |-> cb, name |-> <<"stale_", n>>]) :
             q \in QueuesOfLen(n - 1), cb \in JobCallbacks \cup {other_callback}}

StaleQueues == UNION {QueuesOfLen(n) : n \in 0..MaxStaleTimers}

InitRecovery ==
    /\ clock = StartClock
    /\ GROUP_CHAT_ID \in BOOLEAN
    /\ has_job_queue = TRUE
    /\ _last_scheduled_sent_at = <<>>
    /\ _last_scheduled_texts = <<>>
    /\ job_queue \in StaleQueues
    /\ jobs_setup = FALSE
    /\ setup_time = NoTime
    /\ job_names = {}
    /\ setup_calls = [c \in 1..MaxSetupCalls |-> NoSetupCall]
    /\ invocations = [i \in 1..MaxInvocations |-> NoInvocation]
    /\ sent_log = <<>>
    /\ InitChat

SpecRecovery == InitRecovery /\ [][NextSetup]_vars

\* the timers of the queue that run none of the three job callbacks
OtherTimers(queue) == SelectSeq(queue, LAMBDA job : job.callback \notin JobCallbacks)

schedulerVars == <<envVars, dedupeVars, managerVars, invocations, sent_log>>

\* the (chat_id, user_id) pairs that write to the bot
DialogKeys == {<<GroupChat, Maxim>>, <<GroupChat, OtherUser>>}

\* lines 643-644: a history longer than this is cut to its newest entries
DialogHistoryCap == 20

\* lines 641-642: the two entries a call appends; the n-th call's user text and
\* the reply generated for it are both identified by n
UserEntry(n) == [role |-> "user", content |-> n]

AssistantEntry(n) == [role |-> "assistant", content |-> n]

\* history[-n:], a new list
LastEntries(list, n) ==
    IF Len(list) <= n THEN list ELSE SubSeq(list, Len(list) - n + 1, Len(list))

\* the identity of a newly created list object
NewList(objects) ==
    CHOOSE id \in 1..(Cardinality(DOMAIN objects) + 1) :
        /\ id \notin DOMAIN objects
        /\ \A other \in 1..(id - 1) : other \in DOMAIN objects

\* the list objects still referenced, by dialog_history or by the local
\* variable history of a suspended call; the others are garbage
Collect(objects, history_dict, calls) ==
    LET live == {history_dict[k] : k \in DOMAIN history_dict}
                \cup {calls[s].history : s \in {c \in DOMAIN calls : calls[c].pc = "awaiting"}}
    IN  [id \in DOMAIN objects \cap live |-> objects[id]]

\* the entries stored for a key; reading them does not insert the key
StoredHistory(key) ==
    IF key \in DOMAIN dialog_history THEN list_objects[dialog_history[key]] ELSE <<>>

AnswerReturned(call, text) ==
    [pc |-> "returned", key |-> call.key, user_text |-> call.user_text,
     history |-> 0, text |-> text]

\* what the dialogue functions leave alone
notDialogVars == <<schedulerVars, configVars, groupVars, weatherVars,
                   daily_summary_log, _openai_cache>>

\* lines 611-634: generate_samuil_answer up to its await. history is the list
\* object stored under the key (the defaultdict creates and stores an empty one
\* for a new key), not a copy of it.
AnswerStartDialog(s, key) ==
    LET n == answers_started + 1
        known == key \in DOMAIN dialog_history
        id == IF known THEN dialog_history[key] ELSE NewList(list_objects)
        calls == [answer_calls EXCEPT ![s] =
                     [pc |-> "awaiting", key |-> key, user_text |-> n,
                      history |-> id, text |-> 0]]
        objects == IF known THEN list_objects ELSE DictSet(list_objects, id, <<>>)
    IN  /\ answers_started' = n
        /\ answer_calls' = calls
        /\ dialog_history' = DictSet(dialog_history, key, id)
        /\ list_objects' = Collect(objects, dialog_history', calls)

\* lines 611-649 when client is None: call_openai_chat returns at line 124
\* without suspending, so the call returns in the step in which it was made,
\* having read dialog_history[key]
AnswerNoClientDialog(s, key) ==
    LET n == answers_started + 1
        known == key \in DOMAIN dialog_history
        id == IF known THEN dialog_history[key] ELSE NewList(list_objects)
        calls == [answer_calls EXCEPT ![s] =
                     [pc |-> "returned", key |-> key, user_text |-> n,
                      history |-> 0, text |-> 0]]
        objects == IF known THEN list_objects ELSE DictSet(list_objects, id, <<>>)
    IN  /\ answers_started' = n
        /\ answer_calls' = calls
        /\ dialog_history' = DictSet(dialog_history, key, id)
        /\ list_objects' = Collect(objects, dialog_history', calls)

\* a call that keeps the 20 oldest entries
AnswerSucceededKeepsOldest(s) ==
    LET call == answer_calls[s]
        appended == list_objects[call.history]
                    \o <<UserEntry(call.user_text), AssistantEntry(call.user_text)>>
        mutated == [list_objects EXCEPT ![call.history] = appended]
        trim == Len(appended) > DialogHistoryCap
        id == IF trim THEN NewList(mutated) ELSE call.history
        objects == IF trim
                   THEN DictSet(mutated, id, SubSeq(appended, 1, DialogHistoryCap))
                   ELSE mutated
        calls == [answer_calls EXCEPT ![s] = AnswerReturned(call, call.user_text)]
    IN  /\ answer_calls' = calls
        /\ dialog_history' = DictSet(dialog_history, call.key, id)
        /\ list_objects' = Collect(objects, dialog_history', calls)
        /\ UNCHANGED answers_started

\* lines 640-649 with text not None: both entries are appended to the list
\* object the call holds, and that object, or a new list of its 20 newest
\* entries, is stored under the key
AnswerSucceededDialog(s) ==
    LET call == answer_calls[s]
        appended == list_objects[call.history]
                    \o <<UserEntry(call.user_text), AssistantEntry(call.user_text)>>
        mutated == [list_objects EXCEPT ![call.history] = appended]
        trim == Len(appended) > DialogHistoryCap
        id == IF trim THEN NewList(mutated) ELSE call.history
        objects == IF trim
                   THEN DictSet(mutated, id, LastEntries(appended, DialogHistoryCap))
                   ELSE mutated
        calls == [answer_calls EXCEPT ![s] = AnswerReturned(call, call.user_text)]
    IN  /\ answer_calls' = calls
        /\ dialog_history' = DictSet(dialog_history, call.key, id)
        /\ list_objects' = Collect(objects, dialog_history', calls)
        /\ UNCHANGED answers_started

\* lines 640 and 649 with text None: nothing is appended or stored
AnswerFailedDialog(s) ==
    LET calls == [answer_calls EXCEPT ![s] = AnswerReturned(answer_calls[s], 0)]
    IN  /\ answer_calls' = calls
        /\ list_objects' = Collect(list_objects, dialog_history, calls)
        /\ UNCHANGED <<dialog_history, answers_started>>

\* generate_samuil_answer called on its own, up to its await
AnswerStart(s, key) ==
    /\ answer_calls[s].pc \in {"idle", "returned"}
    /\ AnswerStartDialog(s, key)
    /\ UNCHANGED <<cleared_entries, notDialogVars>>

\* the model call of a call made on its own returned a text
AnswerSucceeded(s) ==
    /\ answer_calls[s].pc = "awaiting"
    /\ AnswerSucceededDialog(s)
    /\ UNCHANGED <<cleared_entries, notDialogVars>>

\* the model call of a call made on its own returned no text
AnswerFailed(s) ==
    /\ answer_calls[s].pc = "awaiting"
    /\ AnswerFailedDialog(s)
    /\ UNCHANGED <<cleared_entries, notDialogVars>>

\* lines 735-742: a key that is present gets a new empty list; the reply that
\* follows changes no state. cleared_entries remembers what the key held.
cmd_clear(key) ==
    IF key \in DOMAIN dialog_history
    THEN LET id == NewList(list_objects)
             dropped == IF key \in DOMAIN cleared_entries
                        THEN cleared_entries[key] ELSE {}
         IN  /\ dialog_history' = DictSet(dialog_history, key, id)
             /\ list_objects' = Collect(DictSet(list_objects, id, <<>>),
                                        dialog_history', answer_calls)
             /\ cleared_entries' =
                    DictSet(cleared_entries, key, dropped \cup Range(StoredHistory(key)))
             /\ UNCHANGED <<answer_calls, answers_started, notDialogVars>>
    ELSE UNCHANGED vars

\* at most this many calls of generate_samuil_answer next to cmd_clear
MaxDialogAnswers == 3

\* the handlers of the dialogue, interleaved at their awaits
NextDialog ==
    \/ \E s \in 1..MaxAnswerCalls, key \in DialogKeys :
          answers_started < MaxDialogAnswers /\ AnswerStart(s, key)
    \/ \E s \in 1..MaxAnswerCalls : AnswerSucceeded(s)
    \/ \E s \in 1..MaxAnswerCalls : AnswerFailed(s)
    \/ \E key \in DialogKeys : cmd_clear(key)

SpecDialog == InitDedupe /\ [][NextDialog]_vars

\* C22: after cmd_clear ran for a key, the history stored for the key holds no
\* entry that was appended before the clear, also when a generate_samuil_answer
\* call for the key was suspended at its model call while the clear ran
C22_ClearedEntriesStayGone ==
    \A key \in DOMAIN cleared_entries :
        Range(StoredHistory(key)) \cap cleared_entries[key] = {}

\* ---------------------------------------------------------------------------
\* Sequences of generate_samuil_answer calls
\* ---------------------------------------------------------------------------

\* the calls of one sequence are numbered up to this
MaxAnswers == 13

\* how many calls, all for the first key and all successful, came before
EarlierAnswers == {8, 9, 10}

RECURSIVE EntriesOfCalls(_)
\* the history k successful calls leave behind while it fits the cap
EntriesOfCalls(k) ==
    IF k = 0 THEN <<>> ELSE EntriesOfCalls(k - 1) \o <<UserEntry(k), AssistantEntry(k)>>

InitAnswers ==
    /\ clock = 0
    /\ GROUP_CHAT_ID = TRUE
    /\ has_job_queue = TRUE
    /\ _last_scheduled_sent_at = <<>>
    /\ _last_scheduled_texts = <<>>
    /\ job_queue = <<>>
    /\ jobs_setup = FALSE
    /\ setup_time = NoTime
    /\ job_names = {}
    /\ setup_calls = [c \in 1..MaxSetupCalls |-> NoSetupCall]
    /\ invocations = [i \in 1..MaxInvocations |-> NoInvocation]
    /\ sent_log = <<>>
    /\ \E k \in EarlierAnswers :
          /\ answers_started = k
          /\ dialog_history = DictSet(<<>>, <<1, 1>>, 1)
          /\ list_objects = DictSet(<<>>, 1, EntriesOfCalls(k))
    /\ answer_calls = [s \in 1..MaxAnswerCalls |-> NoAnswerCall]
    /\ cleared_entries = <<>>
    /\ client = TRUE
    /\ OPENWEATHER_API_KEY = TRUE
    /\ TARGET_USER_ID = Maxim
    /\ daily_summary_log = <<>>
    /\ handler_calls = [h \in 1..MaxAnswerCalls |-> NoHandlerCall]
    /\ messages_received = 0
    /\ _last_maxim_replies = <<>>
    /\ _openai_cache = <<>>
    /\ _weather_cache = <<>>
    /\ weather_calls = [w \in 1..MaxWeatherCalls |-> NoWeatherCall]

\* each call returns before the next one is made
NextAnswers ==
    \/ \E s \in 1..MaxAnswerCalls, key \in DialogKeys :
          /\ answers_started < MaxAnswers
          /\ \A other \in 1..MaxAnswerCalls : answer_calls[other].pc # "awaiting"
          /\ AnswerStart(s, key)
    \/ \E s \in 1..MaxAnswerCalls : AnswerSucceeded(s)
    \/ \E s \in 1..MaxAnswerCalls : AnswerFailed(s)

SpecAnswers == InitAnswers /\ [][NextAnswers]_vars

\* the entries a dictionary of list objects holds for a key
EntriesIn(history_dict, objects, key) ==
    IF key \in DOMAIN history_dict THEN objects[history_dict[key]] ELSE <<>>

\* C23: after any sequence of generate_samuil_answer calls every key's stored
\* history has at most 20 entries; a call whose generation succeeded appends
\* the pair (user text, assistant text) in that order and the 20 newest
\* entries are kept, a call whose generation failed leaves the stored entries
\* of its key unchanged, and no call changes the entries of another key
C23_HistoryOfAnswers ==
    /\ [](\A key \in DOMAIN dialog_history : Len(StoredHistory(key)) <= DialogHistoryCap)
    /\ [][\A s \in 1..MaxAnswerCalls :
            (answer_calls[s].pc = "awaiting" /\ answer_calls'[s].pc = "returned") =>
                LET call == answer_calls[s]
                    text == answer_calls'[s].text
                    before == StoredHistory(call.key)
                    after == EntriesIn(dialog_history', list_objects', call.key)
                IN  /\ IF text # 0
                       THEN after = LastEntries(
                                before \o <<[role |-> "user", content |-> call.user_text],
                                            [role |-> "assistant", content |-> text]>>,
                                DialogHistoryCap)
                       ELSE after = before
                    /\ \A key \in DialogKeys \ {call.key} :
                          EntriesIn(dialog_history', list_objects', key) = StoredHistory(key)
         ]_vars

\* a failed call and enough successful ones happened that the oldest entries
\* of the first key are gone
C23_Witness ==
    /\ \A s \in 1..MaxAnswerCalls : answer_calls[s].pc # "awaiting"
    /\ Len(StoredHistory(<<1, 1>>)) = DialogHistoryCap
    /\ StoredHistory(<<1, 1>>)[1] = UserEntry(3)
    /\ StoredHistory(<<1, 1>>)[DialogHistoryCap] = AssistantEntry(MaxAnswers)
    /\ UserEntry(10) \notin Range(StoredHistory(<<1, 1>>))

\* ---------------------------------------------------------------------------
\* Daily markers and send records
\* ---------------------------------------------------------------------------

\* the daily markers among the keys of _last_scheduled_sent_at
Markers(sent_at) == {key \in DOMAIN sent_at : Len(key) = 2}

\* the step is the one of setup_jobs that clears the dedupe state
ClearingStep ==
    \E c \in 1..MaxSetupCalls :
        setup_calls[c].pc = "sleep1" /\ setup_calls'[c].pc # "sleep1"

\* the daily markers of the sends recorded in the step
MarkersOfStep ==
    {last_send_key(sent_log'[k].job, DateOf(sent_log'[k].now)) :
        k \in (Len(sent_log) + 1)..Len(sent_log')}

\* C24: at every await boundary the daily marker of a job for date D is
\* present if and only if a send of the job with a timestamp on D was recorded
\* since the dedupe state was last cleared: there is no marker at the start,
\* clearing removes every marker, a recorded send adds its own, and no other
\* step adds or removes one. Whenever a marker is present the job's last-sent
\* timestamp is present and its history is not empty.
C24_MarkerMatchesRecord ==
    /\ Markers(_last_scheduled_sent_at) = {}
    /\ [][Markers(_last_scheduled_sent_at') =
            IF ClearingStep THEN {}
            ELSE Markers(_last_scheduled_sent_at) \cup MarkersOfStep]_vars
    /\ [](\A job \in JobCallbacks :
            (\E key \in Markers(_last_scheduled_sent_at) : key[1] = MarkerPrefix(job)) =>
                /\ NameKey(job) \in DOMAIN _last_scheduled_sent_at
                /\ HistoryOf(job) # <<>>)

\* a message was sent and recorded, a later registration cleared the dedupe
\* state, and then another job's message was sent: the only marker is the
\* second one's
C24_Witness ==
    /\ Len(sent_log) = 2
    /\ sent_log[1].job # sent_log[2].job
    /\ Markers(_last_scheduled_sent_at) =
           {last_send_key(sent_log[2].job, DateOf(sent_log[2].now))}
    /\ DOMAIN _last_scheduled_texts = {sent_log[2].job}

\* ---------------------------------------------------------------------------
\* handle_group_message (bot.py:791-904) and what it calls
\* ---------------------------------------------------------------------------

\* "самуил"
Samuil ==
    <<1089, 1072, 1084, 1091, 1080, 1083>>

\* line 770: "картинк", "фото", "фотку", "гиф", "gif", "мем", "picture", "image"
ImageKeywords ==
    {
       <<1082, 1072, 1088, 1090, 1080, 1085, 1082>>,
       <<1092, 1086, 1090, 1086>>,
       <<1092, 1086, 1090, 1082, 1091>>,
       <<1075, 1080, 1092>>,
       <<103, 105, 102>>,
       <<1084, 1077, 1084>>,
       <<112, 105, 99, 116, 117, 114, 101>>,
       <<105, 109, 97, 103, 101>>
    }

\* line 771: "сделай", "нарисуй", "найди", "покажи", "придумай"
ImageVerbs ==
    {
       <<1089, 1076, 1077, 1083, 1072, 1081>>,
       <<1085, 1072, 1088, 1080, 1089, 1091, 1081>>,
       <<1085, 1072, 1081, 1076, 1080>>,
       <<1087, 1086, 1082, 1072, 1078, 1080>>,
       <<1087, 1088, 1080, 1076, 1091, 1084, 1072, 1081>>
    }

\* line 846: "погод", "температур", "жара", "холод", "дождь"
WeatherKeywords ==
    {
       <<1087, 1086, 1075, 1086, 1076>>,
       <<1090, 1077, 1084, 1087, 1077, 1088, 1072, 1090, 1091, 1088>>,
       <<1078, 1072, 1088, 1072>>,
       <<1093, 1086, 1083, 1086, 1076>>,
       <<1076, 1086, 1078, 1076, 1100>>
    }

\* lines 246-259: city_mapping, in the order of the dict
city_mapping ==
    <<
       \* "калуге": "Kaluga,ru"
       [russian |-> <<1082, 1072, 1083, 1091, 1075, 1077>>,
        english |-> <<75, 97, 108, 117, 103, 97, 44, 114, 117>>],
       \* "калуга": "Kaluga,ru"
       [russian |-> <<1082, 1072, 1083, 1091, 1075, 1072>>,
        english |-> <<75, 97, 108, 117, 103, 97, 44, 114, 117>>],
       \* "kaluga": "Kaluga,ru"
       [russian |-> <<107, 97, 108, 117, 103, 97>>,
        english |-> <<75, 97, 108, 117, 103, 97, 44, 114, 117>>],
       \* "брисбене": "Brisbane,au"
       [russian |-> <<1073, 1088, 1080, 1089, 1073, 1077, 1085, 1077>>,
        english |-> <<66, 114, 105, 115, 98, 97, 110, 101, 44, 97, 117>>],
       \* "брисбен": "Brisbane,au"
       [russian |-> <<1073, 1088, 1080, 1089, 1073, 1077, 1085>>,
        english |-> <<66, 114, 105, 115, 98, 97, 110, 101, 44, 97, 117>>],
       \* "brisbane": "Brisbane,au"
       [russian |-> <<98, 114, 105, 115, 98, 97, 110, 101>>,
        english |-> <<66, 114, 105, 115, 98, 97, 110, 101, 44, 97, 117>>],
       \* "москве": "Moscow,ru"
       [russian |-> <<1084, 1086, 1089, 1082, 1074, 1077>>,
        english |-> <<77, 111, 115, 99, 111, 119, 44, 114, 117>>],
       \* "москва": "Moscow,ru"
       [russian |-> <<1084, 1086, 1089, 1082, 1074, 1072>>,
        english |-> <<77, 111, 115, 99, 111, 119, 44, 114, 117>>],
       \* "moscow": "Moscow,ru"
       [russian |-> <<109, 111, 115, 99, 111, 119>>,
        english |-> <<77, 111, 115, 99, 111, 119, 44, 114, 117>>],
       \* "питере": "Saint Petersburg,ru"
       [russian |-> <<1087, 1080, 1090, 1077, 1088, 1077>>,
        english |-> <<83, 97, 105, 110, 116, 32, 80, 101, 116, 101, 114, 115, 98, 117, 114, 103, 44, 114, 117>>],
       \* "петербург": "Saint Petersburg,ru"
       [russian |-> <<1087, 1077, 1090, 1077, 1088, 1073, 1091, 1088, 1075>>,
        english |-> <<83, 97, 105, 110, 116, 32, 80, 101, 116, 101, 114, 115, 98, 117, 114, 103, 44, 114, 117>>],
       \* "спб": "Saint Petersburg,ru"
       [russian |-> <<1089, 1087, 1073>>,
        english |-> <<83, 97, 105, 110, 116, 32, 80, 101, 116, 101, 114, 115, 98, 117, 114, 103, 44, 114, 117>>]
    >>

\* "привет всем"
TextPrivet ==
    <<1087, 1088, 1080, 1074, 1077, 1090, 32, 1074, 1089, 1077, 1084>>

\* "ок"
TextOk ==
    <<1086, 1082>>

\* " Самуил, как дела? "
TextKakDelaSamuil ==
    <<32, 1057, 1072, 1084, 1091, 1080, 1083, 44, 32, 1082, 1072, 1082, 32,
      1076, 1077, 1083, 1072, 63, 32>>

\* "самуил, нарисуй мем"
TextNarisuy ==
    <<1089, 1072, 1084, 1091, 1080, 1083, 44, 32, 1085, 1072, 1088, 1080,
      1089, 1091, 1081, 32, 1084, 1077, 1084>>

\* "Самуил, какая погода в Москве"
TextPogodaMoskva ==
    <<1057, 1072, 1084, 1091, 1080, 1083, 44, 32, 1082, 1072, 1082, 1072,
      1103, 32, 1087, 1086, 1075, 1086, 1076, 1072, 32, 1074, 32, 1052, 1086,
      1089, 1082, 1074, 1077>>

\* "самуил, погода в париже"
TextPogodaParizh ==
    <<1089, 1072, 1084, 1091, 1080, 1083, 44, 32, 1087, 1086, 1075, 1086,
      1076, 1072, 32, 1074, 32, 1087, 1072, 1088, 1080, 1078, 1077>>

\* "какая сегодня погода"
TextPogoda ==
    <<1082, 1072, 1082, 1072, 1103, 32, 1089, 1077, 1075, 1086, 1076, 1085,
      1103, 32, 1087, 1086, 1075, 1086, 1076, 1072>>

\* "Moscow,ru"
CityMoscow ==
    <<77, 111, 115, 99, 111, 119, 44, 114, 117>>

\* "париже"
CityParizhe ==
    <<1087, 1072, 1088, 1080, 1078, 1077>>

\* pattern in text
Contains(s, pattern) ==
    \E i \in 1..(Len(s) - Len(pattern) + 1) :
        SubSeq(s, i, i + Len(pattern) - 1) = pattern

MinOf(S) == CHOOSE x \in S : \A y \in S : x <= y

\* \w of the regex on one character of the alphabet
IsWordChar(c) ==
    \/ (c >= 48 /\ c <= 57) \/ (c >= 65 /\ c <= 90) \/ c = 95
    \/ (c >= 97 /\ c <= 122) \/ (c >= 1024 /\ c <= 1119)

\* line 265: [А-Яа-яA-Za-z\-]
IsCityChar(c) ==
    \/ (c >= 1040 /\ c <= 1103) \/ (c >= 65 /\ c <= 90)
    \/ (c >= 97 /\ c <= 122) \/ c = 45

\* line 268: one of "абвгдеёжзийклмнопрстуфхцчшщъыьэюя"
IsCyrillicLower(c) == (c >= 1072 /\ c <= 1103) \/ c = 1105

RECURSIVE CityRun(_)
\* the longest prefix of city characters
CityRun(s) ==
    IF s = <<>> THEN s
    ELSE IF IsCityChar(Head(s)) THEN <<Head(s)>> \o CityRun(Tail(s))
    ELSE <<>>

\* line 265: group 1 of \b(?:в|в городе)\s+([А-Яа-яA-Za-z\-]+) matched at
\* position i, empty when there is no match there. Where the second
\* alternative matches, the first one matches too, with the group "городе".
CityMatchAt(t, i) ==
    IF /\ t[i] = 1074
       /\ IF i = 1 THEN TRUE ELSE ~IsWordChar(t[i - 1])
       /\ i < Len(t)
       /\ IsSpace(t[i + 1])
    THEN CityRun(LStrip(SubSeq(t, i + 1, Len(t))))
    ELSE <<>>

\* lines 240-275; None is the empty text
detect_weather_city_from_text(text) ==
    LET t == Lower(text)
        named == {k \in DOMAIN city_mapping : Contains(t, city_mapping[k].russian)}
        starts == {i \in DOMAIN t : CityMatchAt(t, i) # <<>>}
    IN  IF named # {} THEN city_mapping[MinOf(named)].english
        ELSE IF starts = {} THEN <<>>
        ELSE LET city_raw == CityMatchAt(t, MinOf(starts))
                 partial == {k \in DOMAIN city_mapping :
                                Contains(city_mapping[k].russian, city_raw)}
             IN  IF (\E c \in Range(city_raw) : IsCyrillicLower(c)) /\ partial # {}
                 THEN city_mapping[MinOf(partial)].english
                 ELSE city_raw

\* lines 768-772
_looks_like_image_request(text_lower) ==
    /\ \E k \in ImageKeywords : Contains(text_lower, k)
    /\ \E v \in ImageVerbs : Contains(text_lower, v)

\* lines 823-830: is_reply_to_bot or ("самуил" in text_lower)
AddressesSamuil(message) ==
    message.reply_to_bot \/ Contains(Lower(Strip(message.text)), Samuil)

\* line 831: the message takes the image branch
TreatedAsImageRequest(message) ==
    _looks_like_image_request(Lower(Strip(message.text))) /\ client

\* lines 846-849: the city whose weather is fetched for the message, if any
CityQueryOf(text) ==
    IF \E keyword \in WeatherKeywords : Contains(Lower(text), keyword)
    THEN detect_weather_city_from_text(text)
    ELSE <<>>

\* a filter that lets every chat through
PassesAnyChat(chat) == TRUE

\* lines 806-812 with GROUP_CHAT_ID unset or an integer: the handler goes on
PassesChatFilter(chat) == ~GROUP_CHAT_ID \/ chat = GroupChat

\* line 819: daily_summary_log[today_str].append(...)
LogAppend(today, line) ==
    DictSet(daily_summary_log, today,
            (IF today \in DOMAIN daily_summary_log
             THEN daily_summary_log[today] ELSE <<>>) \o <<line>>)

\* line 818-819: f"{author_name}: {text}"
LogLine(message) == [author |-> message.user, text |-> Strip(message.text)]

\* a cache that serves an entry of exactly WEATHER_CACHE_TTL seconds too
WeatherCacheFreshInclusive(city_query, now) ==
    /\ city_query \in DOMAIN _weather_cache
    /\ now - _weather_cache[city_query].timestamp <= WEATHER_CACHE_TTL

\* lines 193-199: the cached result is returned
WeatherCacheFresh(city_query, now) ==
    /\ city_query \in DOMAIN _weather_cache
    /\ now - _weather_cache[city_query].timestamp < WEATHER_CACHE_TTL

\* a fetch that stores the time but keeps the result it had
WeatherStoredKeepsResult(city_query, result, now) ==
    DictSet(_weather_cache, city_query,
            [data |-> IF city_query \in DOMAIN _weather_cache
                      THEN _weather_cache[city_query].data ELSE result,
             timestamp |-> now])

\* lines 231-232: _weather_cache[city_query] = (result, datetime.now())
WeatherStored(city_query, result, now) ==
    DictSet(_weather_cache, city_query, [data |-> result, timestamp |-> now])

\* what OpenWeather answers with status 200
WeatherResults == {1, 2}

\* random.choice(fallbacks): the first or the last phrase of the list
FallbackChoices == {1, 4}

\* the messages the group handler is given
GroupMessages ==
    { [chat |-> GroupChat, user |-> Maxim, text |-> TextPrivet, reply_to_bot |-> FALSE],
      [chat |-> GroupChat, user |-> Maxim, text |-> TextOk, reply_to_bot |-> FALSE],
      [chat |-> GroupChat, user |-> Maxim, text |-> TextKakDelaSamuil, reply_to_bot |-> FALSE],
      [chat |-> GroupChat, user |-> OtherUser, text |-> TextNarisuy, reply_to_bot |-> FALSE],
      [chat |-> GroupChat, user |-> OtherUser, text |-> TextPogodaMoskva, reply_to_bot |-> FALSE],
      [chat |-> GroupChat, user |-> Maxim, text |-> TextPogoda, reply_to_bot |-> TRUE],
      [chat |-> GroupChat, user |-> OtherUser, text |-> TextPrivet, reply_to_bot |-> FALSE],
      [chat |-> OtherChat, user |-> Maxim, text |-> TextKakDelaSamuil, reply_to_bot |-> FALSE] }

dialogCallVars == <<dialog_history, list_objects, answer_calls, answers_started>>

HandlerReturned(call, outcome) ==
    [call EXCEPT !.pc = "returned", !.city_query = <<>>, !.reply = NoReply,
                 !.outcome = outcome]

\* lines 859-879 up to the next await: generate_samuil_answer is called; it
\* suspends at its model call, or without a client returns None at once and
\* the handler goes on to send a fallback phrase
CallAnswer(h, call) ==
    LET key == <<call.message.chat, call.message.user>>
    IN  IF client
        THEN /\ AnswerStartDialog(h, key)
             /\ handler_calls' = [handler_calls EXCEPT ![h] =
                    [call EXCEPT !.pc = "answer", !.city_query = <<>>]]
        ELSE /\ AnswerNoClientDialog(h, key)
             /\ \E phrase \in FallbackChoices :
                    handler_calls' = [handler_calls EXCEPT ![h] =
                        [call EXCEPT !.pc = "send", !.city_query = <<>>,
                                     !.reply = [kind |-> "fallback", text |-> phrase]]]

\* lines 889-901 up to the next await: generate_sarcastic_reply_for_maxim is
\* called; without a client it returns None at once
CallSarcastic(h, call) ==
    /\ IF client
       THEN handler_calls' = [handler_calls EXCEPT ![h] = [call EXCEPT !.pc = "sarcastic"]]
       ELSE \E phrase \in FallbackChoices :
                handler_calls' = [handler_calls EXCEPT ![h] =
                    [call EXCEPT !.pc = "send",
                                 !.reply = [kind |-> "maxim_fallback", text |-> phrase]]]
    /\ UNCHANGED dialogCallVars

\* lines 791-904 up to the first await or return. skip is random.random() < 0.40.
handle_group_message(h, message, skip) ==
    /\ handler_calls[h].pc \in {"idle", "returned"}
    /\ answer_calls[h].pc # "awaiting"
    /\ messages_received' = messages_received + 1
    /\ LET text == Strip(message.text)
           text_lower == Lower(text)
           city_query == CityQueryOf(text)
           call == [NoHandlerCall EXCEPT !.number = messages_received + 1,
                                         !.message = message]
       IN  IF ~PassesChatFilter(message.chat)
           THEN /\ handler_calls' = [handler_calls EXCEPT ![h] =
                       HandlerReturned(call, "other_chat")]
                /\ UNCHANGED <<daily_summary_log, dialogCallVars>>
           ELSE /\ daily_summary_log' = LogAppend(DateOf(clock), LogLine(message))
                /\ IF message.reply_to_bot \/ Contains(text_lower, Samuil)
                   THEN IF _looks_like_image_request(text_lower) /\ client
                        THEN /\ handler_calls' = [handler_calls EXCEPT ![h] =
                                    [call EXCEPT !.pc = "image_status"]]
                             /\ UNCHANGED dialogCallVars
                        ELSE IF /\ city_query # <<>>
                                /\ OPENWEATHER_API_KEY
                                /\ ~WeatherCacheFresh(city_query, clock)
                             THEN /\ handler_calls' = [handler_calls EXCEPT ![h] =
                                         [call EXCEPT !.pc = "weather",
                                                      !.city_query = city_query]]
                                  /\ UNCHANGED dialogCallVars
                             ELSE CallAnswer(h, call)
                   ELSE IF TARGET_USER_ID # 0 /\ message.user = TARGET_USER_ID
                        THEN IF skip
                             THEN /\ handler_calls' = [handler_calls EXCEPT ![h] =
                                         HandlerReturned(call, "skipped")]
                                  /\ UNCHANGED dialogCallVars
                             ELSE IF Len(text) < 3
                                  THEN /\ handler_calls' = [handler_calls EXCEPT ![h] =
                                              HandlerReturned(call, "short")]
                                       /\ UNCHANGED dialogCallVars
                                  ELSE CallSarcastic(h, call)
                        ELSE /\ handler_calls' = [handler_calls EXCEPT ![h] =
                                    HandlerReturned(call, "ignored")]
                             /\ UNCHANGED dialogCallVars
    /\ UNCHANGED <<schedulerVars, configVars, cleared_entries, _last_maxim_replies,
                   weatherVars, _openai_cache>>

\* lines 205-237 and 859: the HTTP request of fetch_weather_for_city returned;
\* result 0 is a status other than 200 or an exception. Then the answer is
\* asked for.
HandlerWeatherDone(h, result) ==
    /\ handler_calls[h].pc = "weather"
    /\ _weather_cache' =
           IF result # 0
           THEN WeatherStored(handler_calls[h].city_query, result, clock)
           ELSE _weather_cache
    /\ CallAnswer(h, handler_calls[h])
    /\ UNCHANGED <<schedulerVars, configVars, cleared_entries, messages_received,
                   _last_maxim_replies, weather_calls, daily_summary_log, _openai_cache>>

\* an answer step that returns without a reply when the generation failed
HandlerAnswerDoneNoFallback(h, ok) ==
    /\ handler_calls[h].pc = "answer"
    /\ IF ok
       THEN /\ AnswerSucceededDialog(h)
            /\ handler_calls' = [handler_calls EXCEPT ![h].pc = "send",
                   ![h].reply = [kind |-> "answer", text |-> answer_calls[h].user_text]]
            /\ _openai_cache' =
                   CacheAfterChat(FALSE, <<"generate_samuil_answer", answer_calls[h].user_text>>,
                                  answer_calls[h].user_text, clock)
       ELSE /\ AnswerFailedDialog(h)
            /\ handler_calls' = [handler_calls EXCEPT ![h] =
                   HandlerReturned(handler_calls[h], "replied")]
            /\ UNCHANGED _openai_cache
    /\ UNCHANGED <<schedulerVars, configVars, cleared_entries, messages_received,
                   _last_maxim_replies, weatherVars, daily_summary_log>>

\* lines 634-649 and 867-878: the model call of generate_samuil_answer
\* returned, with a text or without; the handler goes on to send the answer
\* or a fallback phrase
HandlerAnswerDone(h, ok) ==
    /\ handler_calls[h].pc = "answer"
    /\ IF ok
       THEN /\ AnswerSucceededDialog(h)
            /\ handler_calls' = [handler_calls EXCEPT ![h].pc = "send",
                   ![h].reply = [kind |-> "answer", text |-> answer_calls[h].user_text]]
            /\ _openai_cache' =
                   CacheAfterChat(FALSE, <<"generate_samuil_answer", answer_calls[h].user_text>>,
                                  answer_calls[h].user_text, clock)
       ELSE /\ AnswerFailedDialog(h)
            /\ \E phrase \in FallbackChoices :
                   handler_calls' = [handler_calls EXCEPT ![h].pc = "send",
                       ![h].reply = [kind |-> "fallback", text |-> phrase]]
            /\ UNCHANGED _openai_cache
    /\ UNCHANGED <<schedulerVars, configVars, cleared_entries, messages_received,
                   _last_maxim_replies, weatherVars, daily_summary_log>>

\* _last_maxim_replies.append(text) on a deque(maxlen=8)
MaximRepliesAppend(text) ==
    LastEntries(Append(_last_maxim_replies, text), MaximRepliesMaxlen)

\* lines 567-576 and 891-903: the model call of
\* generate_sarcastic_reply_for_maxim returned; the reply is named after the
\* message it answers
HandlerSarcasticDone(h, ok) ==
    /\ handler_calls[h].pc = "sarcastic"
    /\ IF ok
       THEN /\ _last_maxim_replies' = MaximRepliesAppend(handler_calls[h].number)
            /\ handler_calls' = [handler_calls EXCEPT ![h].pc = "send",
                   ![h].reply = [kind |-> "sarcastic", text |-> handler_calls[h].number]]
            /\ _openai_cache' =
                   CacheAfterChat(FALSE,
                                  <<"generate_sarcastic_reply_for_maxim", handler_calls[h].number>>,
                                  handler_calls[h].number, clock)
       ELSE /\ \E phrase \in FallbackChoices :
                   handler_calls' = [handler_calls EXCEPT ![h].pc = "send",
                       ![h].reply = [kind |-> "maxim_fallback", text |-> phrase]]
            /\ UNCHANGED <<_last_maxim_replies, _openai_cache>>
    /\ UNCHANGED <<schedulerVars, configVars, dialogVars, messages_received,
                   weatherVars, daily_summary_log>>

\* lines 876, 879, 900, 903: send_message returned
HandlerSent(h) ==
    /\ handler_calls[h].pc = "send"
    /\ handler_calls' = [handler_calls EXCEPT ![h] =
           HandlerReturned([handler_calls[h] EXCEPT
                               !.replies = Append(@, handler_calls[h].reply)],
                           "replied")]
    /\ UNCHANGED <<schedulerVars, configVars, dialogVars, messages_received,
                   _last_maxim_replies, weatherVars, daily_summary_log, _openai_cache>>

\* lines 876, 879, 900, 903: send_message raised; nothing in the handler
\* catches it
HandlerSendFailed(h) ==
    /\ handler_calls[h].pc = "send"
    /\ handler_calls' = [handler_calls EXCEPT ![h] =
           HandlerReturned(handler_calls[h], "send_raised")]
    /\ UNCHANGED <<schedulerVars, configVars, dialogVars, messages_received,
                   _last_maxim_replies, weatherVars, daily_summary_log, _openai_cache>>

\* lines 832-851: the image branch, one await at a time; ok tells whether the
\* awaited call returned (for generate_image_from_prompt: with an URL)
HandlerImageStep(h, ok) ==
    /\ handler_calls[h].pc \in {"image_status", "image_generate", "image_edit",
                                "image_delete", "image_photo", "image_apology"}
    /\ LET call == handler_calls[h]
           with(kind) == [call EXCEPT !.replies = Append(@, [kind |-> kind, text |-> 0])]
           next ==
               CASE call.pc = "image_status" ->
                        IF ok THEN [with("status") EXCEPT !.pc = "image_generate"]
                        ELSE HandlerReturned(call, "send_raised")
                 [] call.pc = "image_generate" ->
                        IF ok THEN [call EXCEPT !.pc = "image_delete"]
                        ELSE [call EXCEPT !.pc = "image_edit"]
                 [] call.pc = "image_edit" ->
                        IF ok THEN HandlerReturned(with("status_edit"), "image_failed")
                        ELSE HandlerReturned(call, "send_raised")
                 [] call.pc = "image_delete" ->
                        IF ok THEN [with("status_delete") EXCEPT !.pc = "image_photo"]
                        ELSE [call EXCEPT !.pc = "image_apology"]
                 [] call.pc = "image_photo" ->
                        IF ok THEN HandlerReturned(with("photo"), "image_sent")
                        ELSE [call EXCEPT !.pc = "image_apology"]
                 [] call.pc = "image_apology" ->
                        IF ok THEN HandlerReturned(with("apology"), "image_unsent")
                        ELSE HandlerReturned(call, "send_raised")
       IN  handler_calls' = [handler_calls EXCEPT ![h] = next]
    /\ UNCHANGED <<schedulerVars, configVars, dialogVars, messages_received,
                   _last_maxim_replies, weatherVars, daily_summary_log, _openai_cache>>

\* at most this many messages reach handle_group_message
MaxMessages == 2

\* the environment is configured in any way; post_init has returned
InitGroup ==
    /\ InitJobsState
    /\ client \in BOOLEAN
    /\ OPENWEATHER_API_KEY \in BOOLEAN
    /\ TARGET_USER_ID \in {0, Maxim}
    /\ InitChatState

NextGroup ==
    \/ \E d \in TickSteps : Tick(d)
    \/ \E h \in 1..MaxAnswerCalls, message \in GroupMessages, skip \in BOOLEAN :
          messages_received < MaxMessages /\ handle_group_message(h, message, skip)
    \/ \E h \in 1..MaxAnswerCalls, result \in WeatherResults \cup {0} :
          HandlerWeatherDone(h, result)
    \/ \E h \in 1..MaxAnswerCalls, ok \in BOOLEAN : HandlerAnswerDone(h, ok)
    \/ \E h \in 1..MaxAnswerCalls, ok \in BOOLEAN : HandlerSarcasticDone(h, ok)
    \/ \E h \in 1..MaxAnswerCalls : HandlerSent(h)
    \/ \E h \in 1..MaxAnswerCalls : HandlerSendFailed(h)
    \/ \E h \in 1..MaxAnswerCalls, ok \in BOOLEAN : HandlerImageStep(h, ok)

SpecGroup == InitGroup /\ [][NextGroup]_vars

\* the step is the one in which handle_group_message is called, in slot h
ReceivedIn(h) ==
    /\ messages_received' = messages_received + 1
    /\ handler_calls'[h].number = messages_received'

\* C25: a text message of the configured group is appended once to
\* daily_summary_log under the current date in the step in which the handler
\* receives it, before anything is sent, and no later step of a handler
\* touches the log, whatever becomes of the reply; a message of another chat,
\* GROUP_CHAT_ID being an integer, changes no state of the bot and the handler
\* returns without an outbound message.
C25_GroupMessagesLogged ==
    [][/\ \A h \in 1..MaxAnswerCalls :
            ReceivedIn(h) =>
                LET message == handler_calls'[h].message
                    today == DateOf(clock)
                    before == IF today \in DOMAIN daily_summary_log
                              THEN daily_summary_log[today] ELSE <<>>
                IN  /\ (GROUP_CHAT_ID /\ message.chat = GroupChat) =>
                           /\ DOMAIN daily_summary_log' = DOMAIN daily_summary_log \cup {today}
                           /\ daily_summary_log'[today] =
                                  Append(before, [author |-> message.user,
                                                  text |-> Strip(message.text)])
                           /\ \A day \in DOMAIN daily_summary_log \ {today} :
                                  daily_summary_log'[day] = daily_summary_log[day]
                           /\ handler_calls'[h].replies = <<>>
                    /\ (GROUP_CHAT_ID /\ message.chat # GroupChat) =>
                           /\ UNCHANGED <<schedulerVars, dialogVars, configVars,
                                          _last_maxim_replies, weatherVars,
                                          daily_summary_log, _openai_cache>>
                           /\ handler_calls'[h].pc = "returned"
                           /\ handler_calls'[h].replies = <<>>
       /\ messages_received' = messages_received =>
              daily_summary_log' = daily_summary_log
      ]_vars

\* a message of the group whose reply could not be sent is in the log, a
\* message of another chat is not
C25_Witness ==
    /\ GROUP_CHAT_ID
    /\ handler_calls[1].outcome = "send_raised"
    /\ handler_calls[1].message.chat = GroupChat
    /\ handler_calls[2].outcome = "other_chat"
    /\ handler_calls[2].message.chat = OtherChat
    /\ DOMAIN daily_summary_log = {DateOf(StartClock)}
    /\ daily_summary_log[DateOf(StartClock)] = <<LogLine(handler_calls[1].message)>>

\* the reply line 876 or 879 passes to send_message for the call in slot h,
\* whose generate_samuil_answer call has returned
ExpectedReplyKind(h) ==
    IF answer_calls[h].text # 0 THEN "answer" ELSE "fallback"

\* the messages that address Samuil
AddressingMessages == {message \in GroupMessages : AddressesSamuil(message)}

\* the messages that ask for an image
ImageRequestMessages ==
    {message \in GroupMessages :
        _looks_like_image_request(Lower(Strip(message.text)))}

\* the message of the call passed the chat filter, addresses Samuil and is not
\* treated as an image request
AnswerBranchTaken(call) ==
    /\ call.pc # "idle"
    /\ ~GROUP_CHAT_ID \/ call.message.chat = GroupChat
    /\ call.message \in AddressingMessages
    /\ ~(call.message \in ImageRequestMessages /\ client)

\* C26 as written: every message of the group that addresses Samuil and is not
\* treated as an image request has, once its handler has returned, exactly one text
\* message in response: the generated answer when the generation succeeded,
\* otherwise a fallback phrase.
C26_AlwaysOneReply ==
    \A h \in 1..MaxAnswerCalls :
        (handler_calls[h].pc = "returned" /\ AnswerBranchTaken(handler_calls[h])) =>
            /\ Len(handler_calls[h].replies) = 1
            /\ handler_calls[h].replies[1].kind = ExpectedReplyKind(h)

\* C26: a message that passed the chat filter, addresses Samuil and is not
\* treated as an image request leads to exactly one send_message call, with
\* the generated answer when the generation succeeded and with a fallback
\* phrase otherwise: the handler returns from that call and from nowhere
\* else, with this one message in the chat when send_message returned and with
\* none when it raised. The sarcastic branch is never taken for the message.
C26_OneSendAttempt ==
    /\ [](\A h \in 1..MaxAnswerCalls :
            AnswerBranchTaken(handler_calls[h]) =>
                /\ handler_calls[h].pc \in {"weather", "answer", "send", "returned"}
                /\ handler_calls[h].reply.kind \in {"", "answer", "fallback"}
                /\ handler_calls[h].number \notin Range(_last_maxim_replies)
                /\ handler_calls[h].pc = "returned" =>
                       \/ /\ handler_calls[h].outcome = "replied"
                          /\ Len(handler_calls[h].replies) = 1
                          /\ handler_calls[h].replies[1].kind = ExpectedReplyKind(h)
                          /\ ExpectedReplyKind(h) = "answer" =>
                                 handler_calls[h].replies[1].text = answer_calls[h].text
                       \/ /\ handler_calls[h].outcome = "send_raised"
                          /\ handler_calls[h].replies = <<>>)
    /\ [][\A h \in 1..MaxAnswerCalls :
            (/\ AnswerBranchTaken(handler_calls'[h])
             /\ handler_calls'[h].pc = "returned"
             /\ handler_calls'[h] # handler_calls[h]) =>
                /\ handler_calls[h].pc = "send"
                /\ handler_calls[h].number = handler_calls'[h].number
                /\ handler_calls[h].reply.kind = ExpectedReplyKind(h)
         ]_vars

\* Maxim addressed Samuil and got the generated answer, and nothing else;
\* another message that addressed Samuil got nothing, its send having raised
C26_Witness ==
    /\ TARGET_USER_ID = Maxim
    /\ handler_calls[1].outcome = "replied"
    /\ handler_calls[1].message.user = Maxim
    /\ AnswerBranchTaken(handler_calls[1])
    /\ handler_calls[1].replies = <<[kind |-> "answer", text |-> answer_calls[1].text]>>
    /\ handler_calls[2].outcome = "send_raised"
    /\ AnswerBranchTaken(handler_calls[2])
    /\ handler_calls[2].replies = <<>>
    /\ _last_maxim_replies = <<>>

\* ---------------------------------------------------------------------------
\* evening_summary_job and the log of the day
\* ---------------------------------------------------------------------------

\* messages of the group that get no reply
QuietMessages ==
    {message \in GroupMessages :
        /\ message.chat = GroupChat
        /\ message.user = OtherUser
        /\ message \notin AddressingMessages}

\* at most this many messages are written while the callbacks run
MaxQuietMessages == 1

\* the summary and the morning callback, and the group handler logging what
\* is written meanwhile; its calls return at once
NextEvening ==
    \/ \E d \in TickSteps : Tick(d)
    \/ \E i \in 1..MaxInvocations, job \in {good_morning_job, evening_summary_job} :
          JobStart(i, job)
    \/ \E i \in 1..MaxInvocations : JobGenerationFailed(i)
    \/ \E i \in 1..MaxInvocations, text \in GeneratedTexts : JobGenerated(i, text)
    \/ \E i \in 1..MaxInvocations : JobSent(i)
    \/ \E i \in 1..MaxInvocations : JobSendFailed(i)
    \/ \E message \in QuietMessages :
          messages_received < MaxQuietMessages /\ handle_group_message(1, message, FALSE)

SpecEvening == InitJobs /\ [][NextEvening]_vars

\* the step is the return of invocation i of evening_summary_job after its
\* summary was transmitted
SummarySentStep(i) ==
    /\ invocations[i].pc = "send"
    /\ invocations[i].job = evening_summary_job
    /\ invocations'[i].outcome = "sent"
    /\ sent_log' = Append(sent_log, [job |-> evening_summary_job,
                                     now |-> invocations[i].now,
                                     text |-> invocations[i].text])

\* C27: an entry of daily_summary_log is deleted only in the step in which
\* evening_summary_job returns from a successful send, and it is the entry of
\* the date the callback took as today; a callback that returns because the
\* marker is set, the generation failed, the candidate was suppressed or the
\* send raised leaves the log as it is.
C27_LogDeletedAfterSend ==
    [][/\ (\E day \in DOMAIN daily_summary_log : day \notin DOMAIN daily_summary_log') =>
              \E i \in 1..MaxInvocations :
                  /\ SummarySentStep(i)
                  /\ daily_summary_log' =
                         [day \in DOMAIN daily_summary_log \ {DateOf(invocations[i].now)} |->
                             daily_summary_log[day]]
       /\ \A i \in 1..MaxInvocations :
              (/\ invocations[i].pc # "done"
               /\ invocations'[i].outcome \in
                      {"no_chat", "already_sent", "no_text", "dedup", "send_failed"}) =>
                  daily_summary_log' = daily_summary_log
       /\ \A i \in 1..MaxInvocations :
              SummarySentStep(i) =>
                  DateOf(invocations[i].now) \notin DOMAIN daily_summary_log'
      ]_vars

\* a message was logged on the first day; the summary of that day was sent
\* and the entry deleted, another callback's send raised
C27_Witness ==
    /\ messages_received = 1
    /\ handler_calls[1].outcome = "ignored"
    /\ daily_summary_log = <<>>
    /\ Len(sent_log) = 1
    /\ sent_log[1].job = evening_summary_job
    /\ DateOf(sent_log[1].now) = DateOf(StartClock)
    /\ invocations[1].outcome = "sent"
    /\ invocations[2].outcome = "send_failed"

\* ---------------------------------------------------------------------------
\* The four call sites of call_openai_chat and its cache
\* ---------------------------------------------------------------------------

\* Maxim writes to the group: plainly, or addressing Samuil
MaximMessages ==
    {message \in GroupMessages :
        /\ message.chat = GroupChat
        /\ message.user = Maxim
        /\ message.text \in {TextPrivet, TextKakDelaSamuil}}

\* at most this many messages of Maxim next to the callbacks
MaxMaximMessages == 2

\* good_morning_job and evening_summary_job (lines 947, 1028), the answer to a
\* message that addresses Samuil (line 634) and the comment on a message of
\* Maxim (line 567); one message is handled at a time
NextCache ==
    \/ \E i \in 1..MaxInvocations, job \in {good_morning_job, evening_summary_job} :
          JobStart(i, job)
    \/ \E i \in 1..MaxInvocations : JobGenerationFailed(i)
    \/ \E i \in 1..MaxInvocations, text \in {TextTwenty} : JobGenerated(i, text)
    \/ \E i \in 1..MaxInvocations : JobSent(i)
    \/ \E i \in 1..MaxInvocations : JobSendFailed(i)
    \/ \E message \in MaximMessages :
          messages_received < MaxMaximMessages /\ handle_group_message(1, message, FALSE)
    \/ \E ok \in BOOLEAN : HandlerAnswerDone(1, ok)
    \/ \E ok \in BOOLEAN : HandlerSarcasticDone(1, ok)
    \/ HandlerSent(1)
    \/ HandlerSendFailed(1)

SpecCache == InitJobs /\ [][NextCache]_vars

\* line 750: what cmd_stats reports as cached OpenAI answers
openai_cache_size == Cardinality(DOMAIN _openai_cache)

\* C28: _openai_cache is empty in every reachable state, every call site of
\* call_openai_chat passing use_cache=False: no reply is served from the
\* cache and cmd_stats reports 0 cached OpenAI answers.
C28_OpenAICacheEmpty ==
    /\ _openai_cache = <<>>
    /\ openai_cache_size = 0

\* each of the four call sites has obtained a text from the model
C28_Witness ==
    /\ _openai_cache = <<>>
    /\ {sent_log[k].job : k \in DOMAIN sent_log} = {good_morning_job, evening_summary_job}
    /\ \E key \in DOMAIN dialog_history : StoredHistory(key) # <<>>
    /\ _last_maxim_replies # <<>>

\* ---------------------------------------------------------------------------
\* fetch_weather_for_city (bot.py:184-237) called directly
\* ---------------------------------------------------------------------------

\* the city queries of the calls
WeatherCities == {CityMoscow, CityParizhe}

\* the clock advances by at most this many times WEATHER_CACHE_TTL
MaxWeatherTtls == 2

WeatherTickSteps == {WEATHER_CACHE_TTL - 1, WEATHER_CACHE_TTL}

notWeatherVars == <<GROUP_CHAT_ID, has_job_queue, dedupeVars, managerVars, invocations,
                    sent_log, dialogVars, configVars, groupVars, daily_summary_log,
                    _openai_cache>>

WeatherReturned(city_query, result, cached) ==
    [pc |-> "returned", city_query |-> city_query, result |-> result, cached |-> cached]

\* time passes, a little less than the lifetime of a cache entry or just that
WeatherTick(d) ==
    /\ clock + d <= StartClock + MaxWeatherTtls * WEATHER_CACHE_TTL
    /\ clock' = clock + d
    /\ UNCHANGED <<notWeatherVars, weatherVars>>

\* lines 184-206, up to the await of the HTTP request: without a key None is
\* returned, with a fresh cache entry its data
fetch_weather_for_city(w, city_query) ==
    /\ weather_calls[w].pc \in {"idle", "returned"}
    /\ weather_calls' = [weather_calls EXCEPT ![w] =
           IF ~OPENWEATHER_API_KEY
           THEN WeatherReturned(city_query, 0, FALSE)
           ELSE IF WeatherCacheFresh(city_query, clock)
                THEN WeatherReturned(city_query, _weather_cache[city_query].data, TRUE)
                ELSE [pc |-> "awaiting", city_query |-> city_query, result |-> 0,
                      cached |-> FALSE]]
    /\ UNCHANGED <<clock, notWeatherVars, _weather_cache>>

\* lines 206-237: the request returned; result 0 is a status other than 200
\* or an exception
WeatherResponse(w, result) ==
    /\ weather_calls[w].pc = "awaiting"
    /\ _weather_cache' =
           IF result # 0
           THEN WeatherStored(weather_calls[w].city_query, result, clock)
           ELSE _weather_cache
    /\ weather_calls' = [weather_calls EXCEPT ![w] =
           WeatherReturned(weather_calls[w].city_query, result, FALSE)]
    /\ UNCHANGED <<clock, notWeatherVars>>

InitWeather ==
    /\ InitJobsState
    /\ client = TRUE
    /\ OPENWEATHER_API_KEY \in BOOLEAN
    /\ TARGET_USER_ID = Maxim
    /\ InitChatState

NextWeather ==
    \/ \E d \in WeatherTickSteps : WeatherTick(d)
    \/ \E w \in 1..MaxWeatherCalls, city_query \in WeatherCities :
          fetch_weather_for_city(w, city_query)
    \/ \E w \in 1..MaxWeatherCalls, result \in WeatherResults \cup {0} :
          WeatherResponse(w, result)

SpecWeather == InitWeather /\ [][NextWeather]_vars

\* C29: fetch_weather_for_city returns a result without an HTTP request only
\* if the cache holds that result for the same city query, stored strictly
\* less than 300 seconds earlier; a failed fetch returns no result and leaves
\* the cache unchanged; a successful fetch replaces the entry of the city
\* query with the new result and the current time, and no other entry.
C29_WeatherCache ==
    [][\A w \in 1..MaxWeatherCalls :
          (weather_calls'[w].pc = "returned" /\ weather_calls'[w] # weather_calls[w]) =>
              LET city_query == weather_calls'[w].city_query
                  result == weather_calls'[w].result
                  requested == weather_calls[w].pc = "awaiting"
              IN  /\ (~requested /\ result # 0) =>
                         /\ city_query \in DOMAIN _weather_cache
                         /\ _weather_cache[city_query].data = result
                         /\ clock - _weather_cache[city_query].timestamp < 300
                         /\ clock - _weather_cache[city_query].timestamp >= 0
                         /\ _weather_cache' = _weather_cache
                  /\ (requested /\ result = 0) => _weather_cache' = _weather_cache
                  /\ (requested /\ result # 0) =>
                         /\ DOMAIN _weather_cache' = DOMAIN _weather_cache \cup {city_query}
                         /\ _weather_cache'[city_query] =
                                [data |-> result, timestamp |-> clock]
                         /\ \A other \in DOMAIN _weather_cache \ {city_query} :
                                _weather_cache'[other] = _weather_cache[other]
      ]_vars

\* the first result for Moscow was served from the cache 299 seconds after it
\* was stored; 300 seconds later a request was made and its result replaced
\* the entry
C29_Witness ==
    /\ weather_calls[1] = WeatherReturned(CityMoscow, 1, TRUE)
    /\ weather_calls[2] = WeatherReturned(CityMoscow, 2, FALSE)
    /\ CityMoscow \in DOMAIN _weather_cache
    /\ _weather_cache[CityMoscow] =
           [data |-> 2, timestamp |-> StartClock + 2 * WEATHER_CACHE_TTL - 1]
====
